---- MODULE Spec2Model ----
(***************************************************************************)
(* StereoSplatViewer: the Three.js stereo viewer (PLYViewer.tsx).          *)
(*                                                                         *)
(* Numbers.  JavaScript numbers are modelled by exact rationals <<n, d>>   *)
(* in lowest terms with d > 0; only finite values are modelled.  Vector3   *)
(* values are integer triples <<x, y, z>>.  Math.sqrt and Math.tan are     *)
(* modelled by tables / integer square roots with a fixed number of        *)
(* decimals.  A JavaScript null is the empty tuple.  Camera orientations   *)
(* (quaternions) and OrbitControls damping are not modelled: a gesture     *)
(* moves the camera or the target at once, on an integer lattice.          *)
(***************************************************************************)
EXTENDS Integers, Sequences, FiniteSets, Bags, TLC

VARIABLES
    plyUrl,                 \* prop plyUrl: the geometry reference
    modeRef,                \* modeRef.current
    baselineRef,            \* baselineRef.current
    zeroParallaxModeRef,    \* zeroParallaxModeRef.current
    compressionRef,         \* compressionRef.current
    clampPxRef,             \* clampPxRef.current
    framingLockRef,         \* framingLockRef.current
    comfortLockRef,         \* comfortLockRef.current
    comfortStrengthRef,     \* comfortStrengthRef.current
    baseDistanceRef,        \* baseDistanceRef.current (Null or a distance)
    zeroParallaxPointRef,   \* zeroParallaxPointRef.current (Null or a point)
    camera,                 \* the orbit camera: [position, fov, aspect]
    target,                 \* controls.target
    points,                 \* closure variable points: Null or <<loaded url>>
    loadState,              \* loader.load: "pending", "loaded" or "failed"
    error,                  \* React state error: Null or <<message>>
    lastPointer,            \* closure variable lastPointer (Null or "set")
    adjustingFov,           \* closure variable adjustingFov
    lastY,                  \* closure variable lastY
    framingBase,            \* closure variable framingBase: [distance, fov]
    mountSize,              \* <<mount.clientWidth, mount.clientHeight>>
    leftCamera,             \* closure variable leftCamera
    rightCamera,            \* closure variable rightCamera
    frame,                  \* what the latest renderLoop step issued; Null
                            \* once a handler has run after it
    controlsRef,            \* cameraRef.current / controlsRef.current are
                            \* set (TRUE) or null (FALSE)
    superseded,             \* loader.load calls of earlier scene effects
                            \* that are still in flight
    app,                    \* the React state of App (part_003)
    extraction,             \* one call of fetchPlyCameraFov (part_004):
                            \* its payload, position and result
    fovEffect,              \* the metadata fov effect of App: what it
                            \* depends on, lastPlyRef and its fetches
    paramsFile,             \* the params.json the last export wrote
    splat,                  \* SuperSplatViewer: the embedded viewer's
                            \* canvas, the container style and the
                            \* captureAsync calls
    embed,                  \* SuperSplatViewer: its props and refs, the
                            \* mount effect and the embedded viewers it
                            \* created
    polling                 \* App: the job-related state next to job and
                            \* status, the status polls and the backend

vars == <<plyUrl, modeRef, baselineRef, zeroParallaxModeRef, compressionRef,
          clampPxRef, framingLockRef, comfortLockRef, comfortStrengthRef,
          baseDistanceRef, zeroParallaxPointRef, camera, target, points,
          loadState, error, lastPointer, adjustingFov, lastY, framingBase,
          mountSize, leftCamera, rightCamera, frame, controlsRef,
          superseded, app, extraction, fovEffect, paramsFile,
          splat, embed, polling>>

propRefs == <<modeRef, baselineRef, zeroParallaxModeRef, compressionRef,
              clampPxRef, framingLockRef, comfortLockRef, comfortStrengthRef>>

gestureVars == <<lastPointer, adjustingFov, lastY, framingBase>>

eyeCameras == <<leftCamera, rightCamera>>

lifeVars == <<controlsRef, superseded>>

\* what App's asynchronous work (effects, fetches) keeps
asyncVars == <<extraction, fovEffect>>

fileVars == <<paramsFile>>

splatVars == <<splat, embed>>

pollVars == <<polling>>

appVars == <<app, asyncVars, fileVars, splatVars, pollVars>>

\* everything that belongs to the Three.js viewer
viewerVars == <<plyUrl, propRefs, baseDistanceRef, zeroParallaxPointRef,
                camera, target, points, loadState, error, gestureVars,
                mountSize, eyeCameras, frame, lifeVars>>

Null == <<>>

(***************************************************************************)
(* Bounds of the model.                                                    *)
(***************************************************************************)
PosBound == 1       \* camera and target x stay in -PosBound..PosBound
MaxWidth == 3       \* mount.clientWidth ranges over 0..MaxWidth
MaxSuperseded == 1  \* loads of earlier scenes in flight at a time

\* camera.position.set(0, 0, 2) of a new scene, also the `|| 2` fallback
NewCameraZ == 2

(***************************************************************************)
(* Rational arithmetic standing for JavaScript's number arithmetic.        *)
(***************************************************************************)
Abs(x) == IF x < 0 THEN -x ELSE x

RECURSIVE GCD(_, _)
GCD(a, b) == IF b = 0 THEN a ELSE GCD(b, a % b)

R(n, d) ==
    LET s == IF d < 0 THEN -1 ELSE 1
        g == GCD(Abs(n), Abs(d))
    IN  <<(s * n) \div g, (s * d) \div g>>

RInt(n) == <<n, 1>>
RZero == <<0, 1>>
ROne == <<1, 1>>

RAdd(a, b) == R(a[1] * b[2] + b[1] * a[2], a[2] * b[2])
RSub(a, b) == R(a[1] * b[2] - b[1] * a[2], a[2] * b[2])
RMul(a, b) == R(a[1] * b[1], a[2] * b[2])
RDiv(a, b) == R(a[1] * b[2], a[2] * b[1])
RLt(a, b) == a[1] * b[2] < b[1] * a[2]
RLe(a, b) == a[1] * b[2] <= b[1] * a[2]
RMin(a, b) == IF RLt(b, a) THEN b ELSE a
RAbsDiff(a, b) == IF RLt(a, b) THEN RSub(b, a) ELSE RSub(a, b)

\* JavaScript `x || d` on a finite number: d when x is 0
OrElse(x, d) == IF x[1] = 0 THEN d ELSE x

\* JavaScript truthiness of `number | null`
Truthy(x) == x # Null /\ x[1] # 0

(***************************************************************************)
(* Vector3.                                                                *)
(***************************************************************************)
VSub(a, b) == <<a[1] - b[1], a[2] - b[2], a[3] - b[3]>>
VAdd(a, b) == <<a[1] + b[1], a[2] + b[2], a[3] + b[3]>>
VDot(a, b) == a[1] * b[1] + a[2] * b[2] + a[3] * b[3]
VScale(a, k) == <<a[1] * k, a[2] * k, a[3] * k>>

DistanceSq(a, b) == VDot(VSub(a, b), VSub(a, b))

\* the integer square root of n, between lo and hi (lo^2 <= n < hi^2)
RECURSIVE ISqrtBetween(_, _, _)
ISqrtBetween(n, lo, hi) ==
    IF hi - lo <= 1 THEN lo
    ELSE LET mid == (lo + hi) \div 2
         IN  IF mid <= n \div mid THEN ISqrtBetween(n, mid, hi)
             ELSE ISqrtBetween(n, lo, mid)

\* Vector3.distanceTo: Math.sqrt to one decimal
DistanceTo(a, b) ==
    R(ISqrtBetween(100 * DistanceSq(a, b), 0, 100 * DistanceSq(a, b) + 1), 10)

\* Math.tan((fov * Math.PI) / 360) to two decimals, fov a multiple of 10
TanHalfFov(fov) ==
    CASE fov = 20 -> R(18, 100)
      [] fov = 30 -> R(27, 100)
      [] fov = 40 -> R(36, 100)
      [] fov = 50 -> R(47, 100)
      [] fov = 60 -> R(58, 100)
      [] fov = 70 -> R(70, 100)
      [] fov = 80 -> R(84, 100)
      [] fov = 90 -> R(100, 100)

(***************************************************************************)
(* Zero-parallax resolver.                                                 *)
(***************************************************************************)
ResolveZeroParallaxPoint_ClickFirst(modeValue, zpPoint, fallbackTarget) ==
    IF zpPoint # Null THEN zpPoint ELSE fallbackTarget

ResolveZeroParallaxPoint_NoFallback(modeValue, zpPoint, fallbackTarget) ==
    IF modeValue = "pivot" THEN fallbackTarget ELSE zpPoint

ResolveZeroParallaxPoint(modeValue, zpPoint, fallbackTarget) ==
    IF modeValue = "pivot" THEN fallbackTarget
    ELSE IF modeValue = "click" /\ zpPoint # Null THEN zpPoint
    ELSE fallbackTarget

(***************************************************************************)
(* Stereo synthesis: the arithmetic of one renderLoop step.                *)
(***************************************************************************)
\* baseBaseline * compressionValue, with the `|| 0` and `|| 1` defaults
PreComfortBaseline(b, c) == RMul(OrElse(b, RZero), OrElse(c, ROne))

ComfortScale_Ratio(currentDistance, baseDistance, strength) ==
    RDiv(currentDistance, baseDistance)

\* scale = 1 + (ratio - 1) * comfortStrengthValue
ComfortScale(currentDistance, baseDistance, strength) ==
    RAdd(ROne, RMul(RSub(RDiv(currentDistance, baseDistance), ROne),
                    OrElse(strength, RZero)))

\* the comfort step: applied when the lock is on and baseDistanceRef is truthy
ComfortBaseline(pre, comfortActive, baseDistance, currentDistance, strength) ==
    IF comfortActive /\ Truthy(baseDistance)
    THEN RMul(pre, ComfortScale(currentDistance, baseDistance, strength))
    ELSE pre

FloorBaseline_NoFloor(b) == b

\* if (baselineValue < 0) baselineValue = 0
FloorBaseline(b) == IF RLt(b, RZero) THEN RZero ELSE b

HalfWidth(width) == width \div 2

\* f = (halfWidth / 2) / Math.tan((camera.fov * Math.PI) / 360)
FocalPx(halfWidth, fov) == RDiv(R(halfWidth, 2), TanHalfFov(fov))

ClampBaseline_NoClamp(offsetBaseline, clampCur, zDistance, f) == offsetBaseline

\* the clamp step; f = 0 makes maxBaseline +Infinity, so Math.min keeps the
\* baseline (f is finite for every fov the camera can have)
ClampBaseline(offsetBaseline, clampCur, zDistance, f) ==
    LET clampValue == OrElse(clampCur, RZero)
    IN  IF RLt(RZero, clampValue) /\ RLt(RZero, zDistance) /\ f[1] # 0
        THEN RMin(offsetBaseline, RDiv(RMul(clampValue, zDistance), f))
        ELSE offsetBaseline

LeftViewport(width, height) == <<0, 0, HalfWidth(width), height>>
RightViewport_HalfWidth(width, height) ==
    <<HalfWidth(width), 0, HalfWidth(width), height>>

RightViewport(width, height) ==
    <<HalfWidth(width), 0, width - HalfWidth(width), height>>

\* leftCamera.aspect = rightCamera.aspect = halfWidth / height
EyeAspect(width, height) == R(HalfWidth(width), height)

\* the values one pass of renderLoop computes from what it reads
BaselineValueOf(b, c, comfortActive, baseDistance, cam, tgt, strength) ==
    FloorBaseline(ComfortBaseline(PreComfortBaseline(b, c), comfortActive,
                                  baseDistance,
                                  DistanceTo(cam.position, tgt), strength))

OffsetBaselineOf(baselineValue, clampCur, cam, zPoint, width) ==
    ClampBaseline(baselineValue, clampCur, DistanceTo(cam.position, zPoint),
                  FocalPx(HalfWidth(width), cam.fov))

\* an eye camera after copy(camera), the shift along the camera's right
\* axis and the aspect assignment; its position is kept as the signed
\* distance from the orbit camera along that axis.  Orientations are not
\* modelled: the point both eyes lookAt is the frame's zeroParallaxPoint
EyeCamera(cam, shift, width, height) ==
    [position |-> shift, fov |-> cam.fov,
     aspect |-> EyeAspect(width, height)]

\* camera.clone(): same place and orientation as the orbit camera
CloneCamera(cam) ==
    [position |-> RZero, fov |-> cam.fov,
     aspect |-> cam.aspect]

\* the sbs branch of one renderLoop pass over the values s it reads: the
\* eye cameras it leaves behind and the render calls it issues
SbsRendered(s) ==
    LET width == s.mountSize[1]
        height == s.mountSize[2]
        pre == PreComfortBaseline(s.baselineRef, s.compressionRef)
        baselineValue ==
            BaselineValueOf(s.baselineRef, s.compressionRef, s.comfortLockRef,
                            s.baseDistanceRef, s.camera, s.target,
                            s.comfortStrengthRef)
        zPoint == ResolveZeroParallaxPoint(s.zeroParallaxModeRef,
                                           s.zeroParallaxPointRef, s.target)
        offsetBaseline ==
            OffsetBaselineOf(baselineValue, s.clampPxRef, s.camera, zPoint,
                             width)
        half == RMul(offsetBaseline, R(1, 2))
    IN  [leftCamera |-> EyeCamera(s.camera, RSub(RZero, half), width, height),
         rightCamera |-> EyeCamera(s.camera, half, width, height),
         frame |-> [mode |-> "sbs",
                    preComfort |-> pre,
                    baselineValue |-> baselineValue,
                    offsetBaseline |-> offsetBaseline,
                    zeroParallaxPoint |-> zPoint,
                    renders |->
                      <<[camera |-> "leftCamera",
                         viewport |-> LeftViewport(width, height)],
                        [camera |-> "rightCamera",
                         viewport |-> RightViewport(width, height)]>>]]

MonoRendered_WritesEyes(s) ==
    [leftCamera |-> SbsRendered(s).leftCamera,
     rightCamera |-> SbsRendered(s).rightCamera,
     frame |-> [mode |-> "mono",
                preComfort |-> SbsRendered(s).frame.preComfort,
                baselineValue |-> SbsRendered(s).frame.baselineValue,
                offsetBaseline |-> Null,
                zeroParallaxPoint |-> Null,
                renders |-> <<[camera |-> "camera",
                               viewport |-> <<0, 0, s.mountSize[1],
                                              s.mountSize[2]>>]>>]]

\* the mono branch: the eye cameras are left alone, one full-size render
MonoRendered(s) ==
    [leftCamera |-> s.leftCamera,
     rightCamera |-> s.rightCamera,
     frame |-> [mode |-> "mono",
                preComfort |->
                  PreComfortBaseline(s.baselineRef, s.compressionRef),
                baselineValue |->
                  BaselineValueOf(s.baselineRef, s.compressionRef,
                                  s.comfortLockRef, s.baseDistanceRef,
                                  s.camera, s.target, s.comfortStrengthRef),
                offsetBaseline |-> Null,
                zeroParallaxPoint |-> Null,
                renders |-> <<[camera |-> "camera",
                               viewport |-> <<0, 0, s.mountSize[1],
                                              s.mountSize[2]>>]>>]]

Rendered(s) == IF s.modeRef = "sbs" THEN SbsRendered(s) ELSE MonoRendered(s)

\* the values renderLoop reads in the current state
Current ==
    [modeRef |-> modeRef, baselineRef |-> baselineRef,
     zeroParallaxModeRef |-> zeroParallaxModeRef,
     compressionRef |-> compressionRef, clampPxRef |-> clampPxRef,
     comfortLockRef |-> comfortLockRef,
     comfortStrengthRef |-> comfortStrengthRef,
     baseDistanceRef |-> baseDistanceRef,
     zeroParallaxPointRef |-> zeroParallaxPointRef,
     camera |-> camera, target |-> target, mountSize |-> mountSize,
     leftCamera |-> leftCamera, rightCamera |-> rightCamera]

RenderLoop ==
    /\ leftCamera' = Rendered(Current).leftCamera
    /\ rightCamera' = Rendered(Current).rightCamera
    /\ frame' = Rendered(Current).frame
    /\ UNCHANGED <<plyUrl, propRefs, baseDistanceRef, zeroParallaxPointRef,
                   camera, target, points, loadState, error, gestureVars,
                   mountSize, lifeVars, appVars>>

(***************************************************************************)
(* Scenes.  A geometry reference stands for an external PLY file: the      *)
(* world-space points a ray can hit once it is loaded, and the diagonal    *)
(* of its bounding box.                                                    *)
(***************************************************************************)
Urls == {"A", "B"}

WorldPoints(url) ==
    IF url = "A" THEN {<<0, 0, 0>>, <<0, 0, -1>>, <<1, 0, 0>>}
    ELSE {<<0, 0, 0>>}

BoundingSize(url) == IF url = "A" THEN R(5, 6) ELSE RZero

\* Math.sin((camera.fov * Math.PI) / 360) to two decimals
SinHalfFov(fov) ==
    CASE fov = 20 -> R(17, 100)
      [] fov = 30 -> R(26, 100)
      [] fov = 40 -> R(34, 100)
      [] fov = 50 -> R(42, 100)
      [] fov = 60 -> R(50, 100)
      [] fov = 70 -> R(57, 100)
      [] fov = 80 -> R(64, 100)
      [] fov = 90 -> R(71, 100)

\* a camera coordinate on the integer lattice: the nearest integer
RRound(a) == (2 * a[1] + a[2]) \div (2 * a[2])

\* camera.position.set(0, 0, dist * 1.2 || 2)
LoadedCameraZ(url, fov) ==
    LET radius == RMul(BoundingSize(url), R(1, 2))
        dist == RDiv(radius, SinHalfFov(fov))
        z == RRound(RMul(dist, R(12, 10)))
    IN  IF z = 0 THEN NewCameraZ ELSE z

\* gestures keep x within the bound and z within the depth of a new camera
InBounds(p) ==
    /\ p[1] \in -PosBound..PosBound
    /\ p[3] \in -NewCameraZ..NewCameraZ

(***************************************************************************)
(* Raycaster.  The pointer aims the ray from the camera at a scene point   *)
(* in front of the camera, or at empty space (Null).                       *)
(***************************************************************************)
VCross(a, b) == <<a[2] * b[3] - a[3] * b[2],
                  a[3] * b[1] - a[1] * b[3],
                  a[1] * b[2] - a[2] * b[1]>>

\* raycaster.setFromCamera + intersectObject: every point on the ray
RayHits(cam, tgt, pts, aim) ==
    IF aim = Null THEN {}
    ELSE {q \in pts :
            /\ q # cam.position
            /\ VCross(VSub(q, cam.position), VSub(aim, cam.position))
                 = <<0, 0, 0>>
            /\ VDot(VSub(q, cam.position), VSub(aim, cam.position)) > 0
            /\ VDot(VSub(q, cam.position), VSub(tgt, cam.position)) > 0}

NearestHit_Farthest(cam, hits) ==
    CHOOSE q \in hits :
        \A r \in hits :
            DistanceSq(cam.position, q) >= DistanceSq(cam.position, r)

\* hits[0].point: intersections are sorted by distance, nearest first
NearestHit(cam, hits) ==
    CHOOSE q \in hits :
        \A r \in hits :
            DistanceSq(cam.position, q) <= DistanceSq(cam.position, r)

Aims(url) == WorldPoints(url) \cup {Null}

(***************************************************************************)
(* Pick and re-target handlers.                                            *)
(***************************************************************************)
SetPivotFromEvent_MissSets(pts, cam, tgt, zp, aim) ==
    IF pts = Null THEN <<tgt, tgt>>
    ELSE LET hits == RayHits(cam, tgt, WorldPoints(pts[1]), aim)
         IN  IF hits # {}
             THEN <<NearestHit(cam, hits), NearestHit(cam, hits)>>
             ELSE <<tgt, tgt>>

\* setPivotFromEvent: the new <<controls.target, zeroParallaxPointRef>>
SetPivotFromEvent(pts, cam, tgt, zp, aim) ==
    IF pts = Null THEN <<tgt, zp>>
    ELSE LET hits == RayHits(cam, tgt, WorldPoints(pts[1]), aim)
         IN  IF hits # {}
             THEN <<NearestHit(cam, hits), NearestHit(cam, hits)>>
             ELSE <<tgt, zp>>

HandleDblClick(aim) ==
    LET r == SetPivotFromEvent(points, camera, target, zeroParallaxPointRef, aim)
    IN  /\ target' = r[1]
        /\ zeroParallaxPointRef' = r[2]
        /\ frame' = Null
        /\ UNCHANGED <<plyUrl, propRefs, baseDistanceRef, camera, points,
                       loadState, error, gestureVars, mountSize, eyeCameras,
                       lifeVars, appVars>>

SetZeroParallaxFromPivot_NoGuard ==
    /\ zeroParallaxPointRef' = target
    /\ frame' = Null
    /\ UNCHANGED <<plyUrl, propRefs, baseDistanceRef, camera, target, points,
                   loadState, error, gestureVars, mountSize, eyeCameras,
                   lifeVars, appVars>>

\* the imperative handle's setZeroParallaxFromPivot: `if (!controls) return`
SetZeroParallaxFromPivot ==
    /\ zeroParallaxPointRef' =
         IF controlsRef THEN target ELSE zeroParallaxPointRef
    /\ frame' = Null
    /\ UNCHANGED <<plyUrl, propRefs, baseDistanceRef, camera, target, points,
                   loadState, error, gestureVars, mountSize, eyeCameras,
                   lifeVars, appVars>>

(***************************************************************************)
(* OrbitControls gestures: rotate about the target in quarter turns, pan   *)
(* in the view plane by unit steps along x, dolly by a factor of two.      *)
(***************************************************************************)
Rotate(off, dir) ==
    IF dir = 1 THEN <<off[3], off[2], -off[1]>>
    ELSE <<-off[3], off[2], off[1]>>

PanSteps == {<<1, 0, 0>>, <<-1, 0, 0>>}

Halvable(off) == \A i \in 1..3 : off[i] % 2 = 0

Dollied(cam, tgt, k) ==
    LET off == VSub(cam.position, tgt)
    IN  IF k = "out" THEN VAdd(tgt, VScale(off, 2))
        ELSE IF k = "in" /\ Halvable(off)
             THEN VAdd(tgt, <<off[1] \div 2, off[2] \div 2, off[3] \div 2>>)
        ELSE cam.position

Orbit(dir) ==
    LET pos == VAdd(target, Rotate(VSub(camera.position, target), dir))
    IN  /\ ~adjustingFov
        /\ InBounds(pos)
        /\ camera' = [camera EXCEPT !.position = pos]
        /\ frame' = Null
        /\ UNCHANGED <<plyUrl, propRefs, baseDistanceRef, zeroParallaxPointRef,
                       target, points, loadState, error, gestureVars,
                       mountSize, eyeCameras, lifeVars, appVars>>

Pan(v) ==
    /\ ~adjustingFov
    /\ VDot(v, VSub(camera.position, target)) = 0
    /\ InBounds(VAdd(camera.position, v))
    /\ InBounds(VAdd(target, v))
    /\ camera' = [camera EXCEPT !.position = VAdd(camera.position, v)]
    /\ target' = VAdd(target, v)
    /\ frame' = Null
    /\ UNCHANGED <<plyUrl, propRefs, baseDistanceRef, zeroParallaxPointRef,
                   points, loadState, error, gestureVars, mountSize,
                   eyeCameras, lifeVars, appVars>>

Dolly(k) ==
    /\ ~adjustingFov
    /\ Dollied(camera, target, k) # camera.position
    /\ InBounds(Dollied(camera, target, k))
    /\ camera' = [camera EXCEPT !.position = Dollied(camera, target, k)]
    /\ frame' = Null
    /\ UNCHANGED <<plyUrl, propRefs, baseDistanceRef, zeroParallaxPointRef,
                   target, points, loadState, error, gestureVars, mountSize,
                   eyeCameras, lifeVars, appVars>>

\* a wheel event: OrbitControls dollies (when enabled), then handleWheel
\* re-targets to the nearest hit under the last pointer position
WheelTarget(pts, cam, tgt, ptr, aim) ==
    IF pts = Null \/ ptr = Null THEN tgt
    ELSE LET hits == RayHits(cam, tgt, WorldPoints(pts[1]), aim)
         IN  IF hits # {} THEN NearestHit(cam, hits) ELSE tgt

\* handleWheel storing the re-targeted point as the last-click point
HandleWheel_StoresPoint(k, aim) ==
    LET pos == IF adjustingFov THEN camera.position
               ELSE Dollied(camera, target, k)
        cam == [camera EXCEPT !.position = pos]
    IN  /\ InBounds(pos)
        /\ camera' = cam
        /\ target' = WheelTarget(points, cam, target, lastPointer, aim)
        /\ zeroParallaxPointRef' = target'
        /\ frame' = Null
        /\ UNCHANGED <<plyUrl, propRefs, baseDistanceRef,
                       points, loadState, error, gestureVars, mountSize,
                       eyeCameras, lifeVars, appVars>>

HandleWheel(k, aim) ==
    LET pos == IF adjustingFov THEN camera.position
               ELSE Dollied(camera, target, k)
        cam == [camera EXCEPT !.position = pos]
    IN  /\ InBounds(pos)
        /\ camera' = cam
        /\ target' = WheelTarget(points, cam, target, lastPointer, aim)
        /\ frame' = Null
        /\ UNCHANGED <<plyUrl, propRefs, baseDistanceRef, zeroParallaxPointRef,
                       points, loadState, error, gestureVars, mountSize,
                       eyeCameras, lifeVars, appVars>>

(***************************************************************************)
(* Pointer handlers of the fov-adjust gesture.  Pointer events carry       *)
(* clientY in pixels; fov moves 0.1 degree per pixel.                      *)
(***************************************************************************)
PointerYs == {0}

minFov == 20
maxFov == 90

Min(a, b) == IF a < b THEN a ELSE b
Max(a, b) == IF a > b THEN a ELSE b

NextFov_ReadmeClamp(fov, dy) == Min(110, Max(minFov, fov + dy \div 10))

\* Math.min(maxFov, Math.max(minFov, camera.fov + dy * 0.1))
NextFov(fov, dy) == Min(maxFov, Max(minFov, fov + dy \div 10))

Reframed_FromCurrent(cam, tgt, base, nextFov) ==
    LET framingScale == RMul(DistanceTo(cam.position, tgt),
                             TanHalfFov(cam.fov))
        nextDistance == RDiv(framingScale, TanHalfFov(nextFov))
        k == RDiv(nextDistance, DistanceTo(cam.position, tgt))
        off == VSub(cam.position, tgt)
    IN  IF off = <<0, 0, 0>> THEN tgt
        ELSE VAdd(tgt, <<RRound(RMul(RInt(off[1]), k)),
                         RRound(RMul(RInt(off[2]), k)),
                         RRound(RMul(RInt(off[3]), k))>>)

\* framing lock: the camera moves along target -> camera to the distance that
\* keeps framingBase.distance * tan(framingBase.fov / 2); coordinates are
\* rounded to the lattice
Reframed(cam, tgt, base, nextFov) ==
    LET framingScale == RMul(base.distance, TanHalfFov(base.fov))
        nextDistance == RDiv(framingScale, TanHalfFov(nextFov))
        k == RDiv(nextDistance, DistanceTo(cam.position, tgt))
        off == VSub(cam.position, tgt)
    IN  IF off = <<0, 0, 0>> THEN tgt
        ELSE VAdd(tgt, <<RRound(RMul(RInt(off[1]), k)),
                         RRound(RMul(RInt(off[2]), k)),
                         RRound(RMul(RInt(off[3]), k))>>)

HandlePointerDown(ev) ==
    /\ ev.button = 0
    /\ ev.ctrlKey
    /\ adjustingFov' = TRUE
    /\ lastY' = ev.clientY
    /\ framingBase' = [distance |-> DistanceTo(camera.position, target),
                       fov |-> camera.fov]
    /\ frame' = Null
    /\ UNCHANGED <<plyUrl, propRefs, baseDistanceRef, zeroParallaxPointRef,
                   camera, target, points, loadState, error, lastPointer,
                   mountSize, eyeCameras, lifeVars, appVars>>

\* the camera after one update of the fov drag, with framing lock on or off
FovAdjusted(cam, tgt, base, lock, nextFov) ==
    IF lock /\ RLt(RZero, base.distance) /\ base.fov > 0
    THEN [cam EXCEPT !.fov = nextFov,
                     !.position = Reframed(cam, tgt, base, nextFov)]
    ELSE [cam EXCEPT !.fov = nextFov]

HandlePointerMove(ev) ==
    LET nextFov == NextFov(camera.fov, ev.clientY - lastY)
    IN  /\ lastPointer' = <<ev.clientX, ev.clientY>>
        /\ IF adjustingFov
           THEN /\ lastY' = ev.clientY
                /\ camera' = FovAdjusted(camera, target, framingBase,
                                         framingLockRef, nextFov)
           ELSE UNCHANGED <<lastY, camera>>
        /\ frame' = Null
        /\ UNCHANGED <<plyUrl, propRefs, baseDistanceRef, zeroParallaxPointRef,
                       target, points, loadState, error, adjustingFov,
                       framingBase, mountSize, eyeCameras, lifeVars,
                       appVars>>

HandlePointerUp ==
    /\ adjustingFov
    /\ adjustingFov' = FALSE
    /\ frame' = Null
    /\ UNCHANGED <<plyUrl, propRefs, baseDistanceRef, zeroParallaxPointRef,
                   camera, target, points, loadState, error, lastPointer,
                   lastY, framingBase, mountSize, eyeCameras, lifeVars,
                   appVars>>

(***************************************************************************)
(* Prop effects.                                                           *)
(***************************************************************************)
SetZeroParallaxMode(m) ==
    /\ m # zeroParallaxModeRef
    /\ zeroParallaxModeRef' = m
    /\ frame' = Null
    /\ UNCHANGED <<plyUrl, modeRef, baselineRef, compressionRef, clampPxRef,
                   framingLockRef, comfortLockRef, comfortStrengthRef,
                   baseDistanceRef, zeroParallaxPointRef, camera, target,
                   points, loadState, error, gestureVars, mountSize,
                   eyeCameras, lifeVars, appVars>>

SetMode(m) ==
    /\ m # modeRef
    /\ modeRef' = m
    /\ frame' = Null
    /\ UNCHANGED <<plyUrl, baselineRef, zeroParallaxModeRef, compressionRef,
                   clampPxRef, framingLockRef, comfortLockRef,
                   comfortStrengthRef, baseDistanceRef, zeroParallaxPointRef,
                   camera, target, points, loadState, error, gestureVars,
                   mountSize, eyeCameras, lifeVars, appVars>>

(***************************************************************************)
(* App (part_003): the viewer parameters it keeps as React state.  A       *)
(* number that is not finite is a pair with denominator 0.                 *)
(***************************************************************************)
NaN == <<0, 0>>
Infinity == <<1, 0>>

IsFinite(v) == v[2] # 0

RMax(a, b) == IF RLt(a, b) THEN b ELSE a

clampFov_NoClamp(value) ==
    IF ~IsFinite(value) THEN RInt(65) ELSE value

clampFov(value) ==
    IF ~IsFinite(value) THEN RInt(65)
    ELSE RMin(RInt(110), RMax(RInt(20), value))

\* the canvas of the embedded viewer and the calls of captureAsync
CallIds == {1, 2}

CanvasSize == <<2, 2>>

NoCall == [pc |-> "none"]

\* SuperSplatViewer with its embedded viewer created and no capture made:
\* viewer is viewerRef.current, hasScene is viewer.scene?.app, style is
\* the container's style width and height (Null for ""), canvasResize is
\* container is containerRef.current, the resize requested through
\* scene.canvasResize and not yet carried out, error is the component's
\* error state, export is App's handleExportImage
SplatIdle ==
    [viewer |-> TRUE, hasScene |-> TRUE, canvas |-> CanvasSize,
     container |-> TRUE, style |-> Null, canvasResize |-> Null,
     error |-> Null, calls |-> [i \in CallIds |-> NoCall], export |-> NoCall]

\* the props of SuperSplatViewer the mount effect and the prop effects
\* read: the stereo settings (mode stands for the six of them), fovDeg
\* and plyUrl
EmbedProps == [mode |-> "mono", fovDeg |-> 65, plyUrl |-> "A"]

\* SuperSplatViewer after its first render: the refs hold the props, the
\* mount effect awaits the import of the embed module, viewerRef.current
\* is null; viewers are the embedded viewers created so far with what was
\* pushed to each
EmbedIdle ==
    [mounted |-> TRUE, disposed |-> FALSE, pc |-> "importing",
     props |-> EmbedProps, stereoRef |-> EmbedProps.mode,
     fovRef |-> EmbedProps.fovDeg, plyUrlRef |-> EmbedProps.plyUrl,
     viewerRef |-> Null, viewers |-> <<>>, error |-> Null, changes |-> 0]

\* App with no local PLY, no metadata, no upload and no status poll;
\* chains are the poll closures of the status effect that have a request
\* in flight or a timer pending, statusFrom is the job whose response
\* set the status, backend is the status the backend reports for a job
\* (J0 is the finished job of an earlier session)
PollingIdle ==
    [localPlyUrl |-> Null, meta |-> Null, metaPending |-> FALSE,
     isUploading |-> FALSE, uploads |-> 0, chains |-> EmptyBag,
     statusFrom |-> Null, actions |-> 0,
     backend |-> [j \in {"J0", "J1", "J2"} |->
                     IF j = "J0" THEN "done" ELSE "pending"]]

\* no metadata is being read
ExtractionIdle == [pc |-> "idle"]

\* nothing is previewed and no metadata fov fetch has been started.
\* fetches holds the loadFov calls in flight, each with the `active` flag
\* of its closure; fetched and applied count, per geometry reference, the
\* calls of fetchPlyCameraFov and of setFovDeg by loadFov so far
FovEffectIdle ==
    [canPreview |-> FALSE, viewerPlyUrl |-> Null, lastPlyRef |-> Null,
     fetches |-> EmptyBag, fetched |-> [u \in Urls |-> 0],
     applied |-> [u \in Urls |-> 0]]

\* the useState initial values
AppInitial ==
    [mode |-> "mono", baseline |-> R(12, 100), fovDeg |-> RInt(65),
     zeroParallaxMode |-> "click", zeroParallaxDistance |-> RInt(2),
     compression |-> ROne, clampPx |-> RZero, framingLock |-> FALSE,
     comfortLock |-> FALSE, comfortStrength |-> ROne,
     job |-> Null, status |-> Null, logs |-> Null, error |-> Null]

\* App before any interaction: nothing previewed, no metadata read
InitAppIdle ==
    /\ app = AppInitial
    /\ extraction = ExtractionIdle
    /\ fovEffect = FovEffectIdle
    /\ paramsFile = Null
    /\ splat = SplatIdle
    /\ embed = EmbedIdle
    /\ polling = PollingIdle

\* the FOV range input: setFovDeg(clampFov(Number(e.target.value)))
HandleFovSlider(v) ==
    /\ app' = [app EXCEPT !.fovDeg = clampFov(v)]
    /\ UNCHANGED <<viewerVars, asyncVars, fileVars,
                   splatVars, pollVars>>

\* onFovChange of the viewer
HandleFovChange(next) ==
    LET clamped == clampFov(next)
    IN  /\ app' = [app EXCEPT
                     !.fovDeg =
                        IF RLt(RAbsDiff(app.fovDeg, clamped), R(1, 100))
                        THEN app.fovDeg ELSE clamped]
        /\ UNCHANGED <<viewerVars, asyncVars, fileVars,
                       splatVars, pollVars>>

\* loadFov once fetchPlyCameraFov has resolved with fov (Null for no fov)
LoadFov(fov) ==
    /\ app' = IF fov = Null THEN app
              ELSE [app EXCEPT !.fovDeg = clampFov(fov)]
    /\ UNCHANGED <<viewerVars, asyncVars, fileVars,
                   splatVars, pollVars>>

\* reader.onload of handleImportParams for the text doc.  doc.valid is
\* FALSE when JSON.parse (or reading parsed.viewer) throws; a field of
\* doc.viewer that is absent or of another type is Null ("absent" for the
\* two mode strings)
ImportedViewer(a, v) ==
    [a EXCEPT
       !.mode = IF v.mode \in {"mono", "sbs"} THEN v.mode ELSE @,
       !.baseline = IF v.baseline # Null THEN v.baseline ELSE @,
       !.fovDeg = IF v.fovDeg # Null THEN clampFov(v.fovDeg) ELSE @,
       !.zeroParallaxMode =
          IF v.zeroParallaxMode \in {"pivot", "click"}
          THEN v.zeroParallaxMode
          ELSE IF v.zeroParallaxMode = "slider" THEN "pivot" ELSE @,
       !.zeroParallaxDistance =
          IF v.zeroParallaxDistance # Null THEN v.zeroParallaxDistance
          ELSE @,
       !.compression = IF v.compression # Null THEN v.compression ELSE @,
       !.clampPx = IF v.clampPx # Null THEN v.clampPx ELSE @,
       !.framingLock = IF v.framingLock # Null THEN v.framingLock[1] ELSE @,
       !.comfortLock = IF v.comfortLock # Null THEN v.comfortLock[1] ELSE @,
       !.comfortStrength =
          IF v.comfortStrength # Null THEN v.comfortStrength ELSE @]

ImportedJob(a, j) ==
    IF j # Null THEN [a EXCEPT !.job = j, !.status = Null, !.logs = Null]
    ELSE a

Imported(a, doc) ==
    IF ~doc.valid
    THEN [a EXCEPT !.error = <<"Failed to import params">>]
    ELSE ImportedJob(IF doc.viewer # Null
                     THEN ImportedViewer(a, doc.viewer) ELSE a,
                     doc.job)

ImportParams(doc) ==
    /\ app' = Imported(app, doc)
    /\ UNCHANGED <<viewerVars, asyncVars, fileVars,
                   splatVars, pollVars>>

\* the import followed by the commit of the render it causes: the prop
\* effects of the viewer copy the changed parameters into its refs, and
\* the comfortLock effect captures baseDistance when the lock went on
ImportParamsCommitted(doc) ==
    /\ app' = Imported(app, doc)
    /\ modeRef' = app'.mode
    /\ baselineRef' = app'.baseline
    /\ zeroParallaxModeRef' = app'.zeroParallaxMode
    /\ compressionRef' = app'.compression
    /\ clampPxRef' = app'.clampPx
    /\ framingLockRef' = app'.framingLock
    /\ comfortLockRef' = app'.comfortLock
    /\ comfortStrengthRef' = app'.comfortStrength
    /\ baseDistanceRef' =
         IF app'.comfortLock /\ ~comfortLockRef /\ controlsRef
         THEN DistanceTo(camera.position, target)
         ELSE baseDistanceRef
    /\ frame' = Null
    /\ UNCHANGED <<plyUrl, zeroParallaxPointRef, camera, target, points,
                   loadState, error, gestureVars, mountSize, eyeCameras,
                   lifeVars, asyncVars, fileVars, splatVars, pollVars>>

\* JSON.stringify writes a number that is not finite as null, which the
\* import then finds to be no number
JsonNumber(v) == IF IsFinite(v) THEN v ELSE Null

\* viewerParams as JSON.parse reads it back from the exported text
ExportedViewer(a) ==
    [mode |-> a.mode, baseline |-> JsonNumber(a.baseline),
     fovDeg |-> JsonNumber(a.fovDeg),
     zeroParallaxMode |-> a.zeroParallaxMode,
     zeroParallaxDistance |-> JsonNumber(a.zeroParallaxDistance),
     compression |-> JsonNumber(a.compression),
     clampPx |-> JsonNumber(a.clampPx),
     framingLock |-> <<a.framingLock>>, comfortLock |-> <<a.comfortLock>>,
     comfortStrength |-> JsonNumber(a.comfortStrength)]

\* the ten viewer parameters of App
ViewerParams(a) ==
    [mode |-> a.mode, baseline |-> a.baseline, fovDeg |-> a.fovDeg,
     zeroParallaxMode |-> a.zeroParallaxMode,
     zeroParallaxDistance |-> a.zeroParallaxDistance,
     compression |-> a.compression, clampPx |-> a.clampPx,
     framingLock |-> a.framingLock, comfortLock |-> a.comfortLock,
     comfortStrength |-> a.comfortStrength]

\* params.json: the document, and (for the properties only) the viewer
\* parameters at the moment of the export
HandleExportParams ==
    /\ paramsFile' =
         [doc |-> [valid |-> TRUE, viewer |-> ExportedViewer(app),
                   job |-> app.job],
          from |-> ViewerParams(app)]
    /\ paramsFile' # paramsFile
    /\ UNCHANGED <<viewerVars, app, asyncVars,
                   splatVars, pollVars>>

\* the user picks the exported params.json in the import dialog
ImportExported ==
    /\ paramsFile # Null
    /\ ImportParams(paramsFile.doc)

HandleResetViewer ==
    /\ app' = [app EXCEPT
                 !.mode = "mono", !.baseline = R(12, 100),
                 !.fovDeg = RInt(65), !.zeroParallaxMode = "click",
                 !.zeroParallaxDistance = RInt(2), !.compression = ROne,
                 !.clampPx = RZero, !.framingLock = FALSE,
                 !.comfortLock = FALSE, !.comfortStrength = ROne]
    /\ UNCHANGED <<viewerVars, asyncVars, fileVars,
                   splatVars, pollVars>>

(***************************************************************************)
(* The scene effect: mount, load completion, re-mount on a new plyUrl.     *)
(***************************************************************************)
\* new PerspectiveCamera(60, clientWidth / clientHeight, ...) at (0, 0, 2)
NewCamera(size) ==
    [position |-> <<0, 0, NewCameraZ>>, fov |-> 60,
     aspect |-> R(size[1], size[2])]

Origin == <<0, 0, 0>>

\* the values renderLoop reads right after the effect body has built the
\* scene, given the prop refs p
Mounted(p, size) ==
    [modeRef |-> p.modeRef, baselineRef |-> p.baselineRef,
     zeroParallaxModeRef |-> p.zeroParallaxModeRef,
     compressionRef |-> p.compressionRef, clampPxRef |-> p.clampPxRef,
     comfortLockRef |-> p.comfortLockRef,
     comfortStrengthRef |-> p.comfortStrengthRef,
     baseDistanceRef |-> Null, zeroParallaxPointRef |-> Null,
     camera |-> NewCamera(size), target |-> Origin, mountSize |-> size,
     leftCamera |-> CloneCamera(NewCamera(size)),
     rightCamera |-> CloneCamera(NewCamera(size))]

\* the state the scene effect body leaves for url, its first renderLoop()
\* call included
AfterMount(url, p, size) ==
    [plyUrl |-> url, error |-> Null, zeroParallaxPointRef |-> Null,
     baseDistanceRef |-> Null, camera |-> NewCamera(size), target |-> Origin,
     points |-> Null, loadState |-> "pending", lastPointer |-> Null,
     adjustingFov |-> FALSE, lastY |-> 0,
     framingBase |-> [distance |-> RZero, fov |-> 0], controlsRef |-> TRUE,
     leftCamera |-> Rendered(Mounted(p, size)).leftCamera,
     rightCamera |-> Rendered(Mounted(p, size)).rightCamera,
     frame |-> Rendered(Mounted(p, size)).frame]

MountScene_KeepsClick(url, p, size) ==
    LET m == AfterMount(url, p, size)
    IN  /\ plyUrl' = m.plyUrl
        /\ error' = m.error
        /\ zeroParallaxPointRef' = zeroParallaxPointRef
        /\ baseDistanceRef' = m.baseDistanceRef
        /\ camera' = m.camera
        /\ target' = m.target
        /\ points' = m.points
        /\ loadState' = m.loadState
        /\ lastPointer' = m.lastPointer
        /\ adjustingFov' = m.adjustingFov
        /\ lastY' = m.lastY
        /\ framingBase' = m.framingBase
        /\ controlsRef' = m.controlsRef
        /\ leftCamera' = m.leftCamera
        /\ rightCamera' = m.rightCamera
        /\ frame' = m.frame

MountScene(url, p, size) ==
    LET m == AfterMount(url, p, size)
    IN  /\ plyUrl' = m.plyUrl
        /\ error' = m.error
        /\ zeroParallaxPointRef' = m.zeroParallaxPointRef
        /\ baseDistanceRef' = m.baseDistanceRef
        /\ camera' = m.camera
        /\ target' = m.target
        /\ points' = m.points
        /\ loadState' = m.loadState
        /\ lastPointer' = m.lastPointer
        /\ adjustingFov' = m.adjustingFov
        /\ lastY' = m.lastY
        /\ framingBase' = m.framingBase
        /\ controlsRef' = m.controlsRef
        /\ leftCamera' = m.leftCamera
        /\ rightCamera' = m.rightCamera
        /\ frame' = m.frame

\* the loader.load calls in flight once the current scene's closure is
\* left behind: nothing cancels a pending load, and its callbacks keep the
\* old closure's camera and controls
InFlight ==
    IF loadState = "pending"
    THEN superseded (+) SetToBag({[plyUrl |-> plyUrl, fov |-> camera.fov,
                                   target |-> target]})
    ELSE superseded

\* plyUrl changes: the cleanup of the old scene, then the effect body
SceneChange(url) ==
    /\ url # plyUrl
    /\ BagCardinality(InFlight) <= MaxSuperseded
    /\ MountScene(url, Current, mountSize)
    /\ superseded' = InFlight
    /\ UNCHANGED <<propRefs, mountSize, appVars>>

\* the component unmounts: the cleanup of the scene effect
Unmount ==
    /\ controlsRef
    /\ BagCardinality(InFlight) <= MaxSuperseded
    /\ controlsRef' = FALSE
    /\ superseded' = InFlight
    /\ loadState' = "unmounted"
    /\ frame' = Null
    /\ UNCHANGED <<plyUrl, propRefs, baseDistanceRef, zeroParallaxPointRef,
                   camera, target, points, error, gestureVars, mountSize,
                   eyeCameras, appVars>>

\* loader.load onLoad
LoadComplete ==
    LET cam == [camera EXCEPT
                  !.position = <<0, 0, LoadedCameraZ(plyUrl, camera.fov)>>]
    IN  /\ loadState = "pending"
        /\ loadState' = "loaded"
        /\ points' = <<plyUrl>>
        /\ camera' = cam
        /\ baseDistanceRef' = DistanceTo(cam.position, target)
        /\ frame' = Null
        /\ UNCHANGED <<plyUrl, propRefs, zeroParallaxPointRef, target, error,
                       gestureVars, mountSize, eyeCameras, lifeVars, appVars>>

\* loader.load onError
LoadError ==
    /\ loadState = "pending"
    /\ loadState' = "failed"
    /\ error' = <<"Failed to load PLY">>
    /\ frame' = Null
    /\ UNCHANGED <<plyUrl, propRefs, baseDistanceRef, zeroParallaxPointRef,
                   camera, target, points, gestureVars, mountSize, eyeCameras,
                   lifeVars, appVars>>

\* onLoad of a load whose scene effect has been cleaned up: it moves the old
\* closure's camera and points, and writes the shared baseDistanceRef
SupersededLoadComplete(l) ==
    /\ BagIn(l, superseded)
    /\ superseded' = superseded (-) SetToBag({l})
    /\ baseDistanceRef' =
         DistanceTo(<<0, 0, LoadedCameraZ(l.plyUrl, l.fov)>>, l.target)
    /\ frame' = Null
    /\ UNCHANGED <<plyUrl, propRefs, zeroParallaxPointRef, camera, target,
                   points, loadState, error, gestureVars, mountSize,
                   eyeCameras, controlsRef, appVars>>

\* onError of such a load: setError on the component
SupersededLoadError(l) ==
    /\ BagIn(l, superseded)
    /\ superseded' = superseded (-) SetToBag({l})
    /\ error' = IF controlsRef THEN <<"Failed to load PLY">> ELSE error
    /\ frame' = Null
    /\ UNCHANGED <<plyUrl, propRefs, baseDistanceRef, zeroParallaxPointRef,
                   camera, target, points, loadState, gestureVars, mountSize,
                   eyeCameras, controlsRef, appVars>>

SetComfortLock_NoCapture(b) ==
    /\ b # comfortLockRef
    /\ comfortLockRef' = b
    /\ frame' = Null
    /\ UNCHANGED <<plyUrl, modeRef, baselineRef, zeroParallaxModeRef,
                   compressionRef, clampPxRef, framingLockRef,
                   comfortStrengthRef, baseDistanceRef, zeroParallaxPointRef,
                   camera, target, points, loadState, error, gestureVars,
                   mountSize, eyeCameras, lifeVars, appVars>>

\* the comfortLock effect
SetComfortLock(b) ==
    /\ b # comfortLockRef
    /\ comfortLockRef' = b
    /\ baseDistanceRef' =
         IF b /\ controlsRef THEN DistanceTo(camera.position, target)
         ELSE baseDistanceRef
    /\ frame' = Null
    /\ UNCHANGED <<plyUrl, modeRef, baselineRef, zeroParallaxModeRef,
                   compressionRef, clampPxRef, framingLockRef,
                   comfortStrengthRef, zeroParallaxPointRef, camera, target,
                   points, loadState, error, gestureVars, mountSize,
                   eyeCameras, lifeVars, appVars>>

\* the comfortStrength effect
SetComfortStrength(v) ==
    /\ v # comfortStrengthRef
    /\ comfortStrengthRef' = v
    /\ frame' = Null
    /\ UNCHANGED <<plyUrl, modeRef, baselineRef, zeroParallaxModeRef,
                   compressionRef, clampPxRef, framingLockRef, comfortLockRef,
                   baseDistanceRef, zeroParallaxPointRef, camera, target,
                   points, loadState, error, gestureVars, mountSize,
                   eyeCameras, lifeVars, appVars>>

SetFramingLock_Captures(b) ==
    /\ b # framingLockRef
    /\ framingLockRef' = b
    /\ baseDistanceRef' = DistanceTo(camera.position, target)
    /\ frame' = Null
    /\ UNCHANGED <<plyUrl, modeRef, baselineRef, zeroParallaxModeRef,
                   compressionRef, clampPxRef, comfortLockRef,
                   comfortStrengthRef, zeroParallaxPointRef, camera, target,
                   points, loadState, error, gestureVars, mountSize,
                   eyeCameras, lifeVars, appVars>>

\* the framingLock effect
SetFramingLock(b) ==
    /\ b # framingLockRef
    /\ framingLockRef' = b
    /\ frame' = Null
    /\ UNCHANGED <<plyUrl, modeRef, baselineRef, zeroParallaxModeRef,
                   compressionRef, clampPxRef, comfortLockRef,
                   comfortStrengthRef, baseDistanceRef, zeroParallaxPointRef,
                   camera, target, points, loadState, error, gestureVars,
                   mountSize, eyeCameras, lifeVars, appVars>>

(***************************************************************************)
(* The viewer in use: mounted on scene "A" with the application's default  *)
(* stereo numbers in side-by-side mode, then driven by gestures, picks,    *)
(* frames, scene changes and the unmount once the load has settled.        *)
(***************************************************************************)
PropRefs(m, b, zm, c, cl, fl, co, cs) ==
    [modeRef |-> m, baselineRef |-> b, zeroParallaxModeRef |-> zm,
     compressionRef |-> c, clampPxRef |-> cl, framingLockRef |-> fl,
     comfortLockRef |-> co, comfortStrengthRef |-> cs]

InitProps(p) ==
    /\ modeRef = p.modeRef
    /\ baselineRef = p.baselineRef
    /\ zeroParallaxModeRef = p.zeroParallaxModeRef
    /\ compressionRef = p.compressionRef
    /\ clampPxRef = p.clampPxRef
    /\ framingLockRef = p.framingLockRef
    /\ comfortLockRef = p.comfortLockRef
    /\ comfortStrengthRef = p.comfortStrengthRef

InitScene(m) ==
    /\ plyUrl = m.plyUrl
    /\ error = m.error
    /\ zeroParallaxPointRef = m.zeroParallaxPointRef
    /\ baseDistanceRef = m.baseDistanceRef
    /\ camera = m.camera
    /\ target = m.target
    /\ points = m.points
    /\ loadState = m.loadState
    /\ lastPointer = m.lastPointer
    /\ adjustingFov = m.adjustingFov
    /\ lastY = m.lastY
    /\ framingBase = m.framingBase
    /\ controlsRef = m.controlsRef
    /\ superseded = EmptyBag
    /\ leftCamera = m.leftCamera
    /\ rightCamera = m.rightCamera
    /\ frame = m.frame

ViewSize == <<4, 2>>

Init ==
    \E zm \in {"pivot", "click"} :
        LET p == PropRefs("sbs", R(12, 100), zm, ROne, RZero, FALSE, FALSE,
                          ROne)
        IN  /\ InitProps(p)
            /\ mountSize = ViewSize
            /\ InitScene(AfterMount("A", p, ViewSize))
            /\ InitAppIdle

PointerEvents == {[clientX |-> 0, clientY |-> y] : y \in PointerYs}

\* the render loop, the listeners and the effects run while the scene is
\* mounted; the imperative handle can be called at any time
Next ==
    \/ /\ controlsRef
       /\ \/ RenderLoop
          \/ \E aim \in Aims(plyUrl) : HandleDblClick(aim)
          \/ \E dir \in {1, -1} : Orbit(dir)
          \/ \E v \in PanSteps : Pan(v)
          \/ \E k \in {"in", "out"} : Dolly(k)
          \/ \E k \in {"in", "out", "none"}, aim \in Aims(plyUrl) :
                HandleWheel(k, aim)
          \/ \E ev \in PointerEvents : HandlePointerMove(ev)
          \/ \E m \in {"pivot", "click"} : SetZeroParallaxMode(m)
          \/ \E url \in Urls : loadState # "pending" /\ SceneChange(url)
          \/ LoadComplete
          \/ LoadError
          \/ loadState # "pending" /\ Unmount
    \/ SetZeroParallaxFromPivot

Spec == Init /\ [][Next]_vars

(***************************************************************************)
(* The viewer's lifetime: scene changes at any moment (also while a load   *)
(* is pending, which leaves that load in flight), late completions of      *)
(* such loads, the comfort lock and strength effects, and the unmount.     *)
(* The zero-parallax mode is "click"; double-clicks aim along the view     *)
(* axis or miss.                                                           *)
(***************************************************************************)
LifeStrengths == {ROne, RInt(2)}
\* double-click positions: on the two points of the view axis, or a miss
LifeAims == {<<0, 0, 0>>, <<0, 0, -1>>, Null}

InitLife ==
    \E co \in BOOLEAN :
        LET p == PropRefs("sbs", R(12, 100), "click", ROne, RZero, FALSE, co,
                          ROne)
        IN  /\ InitProps(p)
            /\ mountSize = ViewSize
            /\ InitScene(AfterMount("A", p, ViewSize))
            /\ InitAppIdle

NextLife ==
    \/ /\ controlsRef
       /\ \/ RenderLoop
          \/ \E aim \in LifeAims : HandleDblClick(aim)
          \/ \E k \in {"in", "out"} : Dolly(k)
          \/ \E b \in BOOLEAN : SetComfortLock(b)
          \/ \E v \in LifeStrengths : SetComfortStrength(v)
          \/ \E url \in Urls : SceneChange(url)
          \/ LoadComplete
          \/ LoadError
          \/ Unmount
    \/ SetZeroParallaxFromPivot
    \/ \E l \in BagToSet(superseded) : SupersededLoadComplete(l)
    \/ \E l \in BagToSet(superseded) : SupersededLoadError(l)

SpecLife == InitLife /\ [][NextLife]_vars

(***************************************************************************)
(* The fov drag: scene "A" is loaded and the camera has been dollied out   *)
(* along the view axis; ctrl-drags change the fov in steps of 30 degrees   *)
(* and the framing lock is switched at any moment, also in the middle of   *)
(* a drag; the comfort lock is on or off from the start.  MinDrag and      *)
(* MaxDrag bound the camera distance explored (the code has no limit).     *)
(***************************************************************************)
DragDistance == 32
MinDrag == 8
MaxDrag == 128
DragYs == {0, 300}

DragEvents ==
    {[clientX |-> 0, clientY |-> y, button |-> 0, ctrlKey |-> TRUE] :
        y \in DragYs}

InDrag(cam) ==
    /\ RLe(RInt(MinDrag), DistanceTo(cam.position, target))
    /\ RLe(DistanceTo(cam.position, target), RInt(MaxDrag))

InitDrag ==
    \E fl \in BOOLEAN, co \in BOOLEAN :
        LET p == PropRefs("sbs", R(12, 100), "pivot", ROne, RZero, fl, co,
                          ROne)
            cam == [NewCamera(ViewSize) EXCEPT
                      !.position = <<0, 0, DragDistance>>]
        IN  /\ InitProps(p)
            /\ mountSize = ViewSize
            /\ plyUrl = "A"
            /\ error = Null
            /\ zeroParallaxPointRef = Null
            /\ baseDistanceRef = RInt(LoadedCameraZ("A", 60))
            /\ camera = cam
            /\ target = Origin
            /\ points = <<"A">>
            /\ loadState = "loaded"
            /\ lastPointer = Null
            /\ adjustingFov = FALSE
            /\ lastY = 0
            /\ framingBase = [distance |-> RZero, fov |-> 0]
            /\ controlsRef = TRUE
            /\ superseded = EmptyBag
            /\ InitAppIdle
            /\ leftCamera = CloneCamera(NewCamera(ViewSize))
            /\ rightCamera = CloneCamera(NewCamera(ViewSize))
            /\ frame = Null

NextDrag ==
    \/ \E ev \in DragEvents : HandlePointerDown(ev)
    \/ \E ev \in DragEvents : HandlePointerMove(ev) /\ InDrag(camera')
    \/ HandlePointerUp
    \/ \E b \in BOOLEAN : SetFramingLock(b)

SpecDrag == InitDrag /\ [][NextDrag]_vars

(***************************************************************************)
(* App's viewer parameters under slider edits, params imports, fov         *)
(* notifications of the viewer, metadata fovs and resets.  The candidate   *)
(* fovs include values that are not finite and values outside [20, 110].   *)
(***************************************************************************)
FovValues ==
    {NaN, Infinity, RInt(-5), RInt(20), R(2001, 100), RInt(45), RInt(65),
     R(13001, 200), RInt(90), RInt(110), RInt(200)}

\* a document with only viewer.fovDeg, and one with every viewer field
PartialViewer(fov) ==
    [mode |-> "absent", baseline |-> Null, fovDeg |-> fov,
     zeroParallaxMode |-> "absent", zeroParallaxDistance |-> Null,
     compression |-> Null, clampPx |-> Null, framingLock |-> Null,
     comfortLock |-> Null, comfortStrength |-> Null]

FullViewer(fov) ==
    [mode |-> "sbs", baseline |-> R(1, 2), fovDeg |-> fov,
     zeroParallaxMode |-> "slider", zeroParallaxDistance |-> RInt(3),
     compression |-> R(1, 2), clampPx |-> RInt(10), framingLock |-> <<TRUE>>,
     comfortLock |-> <<TRUE>>, comfortStrength |-> RInt(2)]

\* "baseline": 1e999, which JSON.parse reads as Infinity
OverflowViewer == [PartialViewer(Null) EXCEPT !.baseline = Infinity]

ParamDocs ==
    {[valid |-> FALSE, viewer |-> Null, job |-> Null],
     [valid |-> TRUE, viewer |-> Null, job |-> <<"job">>]}
    \cup {[valid |-> TRUE, viewer |-> PartialViewer(fov), job |-> Null] :
            fov \in FovValues \cup {Null}}
    \cup {[valid |-> TRUE, viewer |-> FullViewer(fov), job |-> Null] :
            fov \in FovValues}
    \cup {[valid |-> TRUE, viewer |-> OverflowViewer, job |-> Null]}

InitApp ==
    \E zm \in {"pivot", "click"} :
        LET p == PropRefs("sbs", R(12, 100), zm, ROne, RZero, FALSE, FALSE,
                          ROne)
        IN  /\ InitProps(p)
            /\ mountSize = ViewSize
            /\ InitScene(AfterMount("A", p, ViewSize))
            /\ InitAppIdle

NextApp ==
    \/ HandleExportParams
    \/ ImportExported
    \/ \E v \in FovValues : HandleFovSlider(v)
    \/ \E v \in FovValues : HandleFovChange(v)
    \/ \E v \in FovValues \cup {Null} : LoadFov(v)
    \/ \E doc \in ParamDocs : ImportParams(doc)
    \/ HandleResetViewer

SpecApp == InitApp /\ [][NextApp]_vars

(***************************************************************************)
(* Imports of params files with out-of-range, ill-typed and unknown        *)
(* values into a viewer that renders: the viewer's props are App's viewer  *)
(* parameters.                                                             *)
(***************************************************************************)
\* a field of the wrong type or an absent one is Null; "stereo" and
\* "nowhere" are no values of the two enums
RenderDocs ==
    {[valid |-> TRUE, job |-> Null,
      viewer |-> [PartialViewer(fov) EXCEPT
                    !.mode = m, !.zeroParallaxMode = zm, !.baseline = b,
                    !.compression = c, !.clampPx = cl]] :
        fov \in {RInt(5), RInt(200), Null}, m \in {"sbs", "stereo"},
        zm \in {"slider", "nowhere"}, b \in {RInt(-1), R(1, 2), Null},
        c \in {RInt(-1), ROne, Null}, cl \in {RInt(-5), Null}}

InitImport ==
    LET p == PropRefs(AppInitial.mode, AppInitial.baseline,
                      AppInitial.zeroParallaxMode, AppInitial.compression,
                      AppInitial.clampPx, AppInitial.framingLock,
                      AppInitial.comfortLock, AppInitial.comfortStrength)
    IN  /\ InitProps(p)
        /\ mountSize = ViewSize
        /\ InitScene(AfterMount("A", p, ViewSize))
        /\ InitAppIdle

NextImport ==
    \/ \E doc \in RenderDocs : ImportParamsCommitted(doc)
    \/ RenderLoop

SpecImport == InitImport /\ [][NextImport]_vars

(***************************************************************************)
(* The scene metadata extractor (part_004).  A payload is the response of  *)
(* fetch: ok, whether "end_header" and a newline occur, the format line    *)
(* ("none" when the header has no valid one), the elements of the header   *)
(* and the data after the header as 4-byte words, each holding the number  *)
(* a read at that place yields.  Offsets count from the end of the header. *)
(***************************************************************************)
NegInfinity == <<-1, 0>>

\* TYPE_SIZE[prop.type] ?? 0
TYPE_SIZE(type) ==
    CASE type \in {"char", "int8", "uchar", "uint8"} -> 1
      [] type \in {"short", "int16", "ushort", "uint16"} -> 2
      [] type \in {"int", "int32", "uint", "uint32", "float", "float32"} -> 4
      [] type \in {"double", "float64"} -> 8
      [] OTHER -> 0

\* the bytes one readScalar call consumes (float32 by default)
ScalarSize(type) == IF TYPE_SIZE(type) = 0 THEN 4 ELSE TYPE_SIZE(type)

RangeError == [raised |-> TRUE]

\* DataView.getXxx throws a RangeError when the read passes the end
readScalar(data, offset, type) ==
    IF offset + ScalarSize(type) > 4 * Len(data) THEN RangeError
    ELSE [raised |-> FALSE, value |-> data[(offset \div 4) + 1],
          next |-> offset + ScalarSize(type)]

\* the two nested loops over element.count and element.properties, from
\* read number k on: the values pushed and the offset reached, or the error
RECURSIVE ReadValues(_, _, _, _, _)
ReadValues(data, offset, element, k, values) ==
    IF k >= element.count * Len(element.properties)
    THEN [raised |-> FALSE, values |-> values, offset |-> offset]
    ELSE LET prop == element.properties[(k % Len(element.properties)) + 1]
             result == readScalar(data, offset, prop.type)
         IN  IF result.raised THEN RangeError
             ELSE ReadValues(data, result.next, element, k + 1,
                             Append(values, result.value))

RECURSIVE Stride(_)
Stride(properties) ==
    IF properties = <<>> THEN 0
    ELSE (IF Head(properties).isList THEN 0
          ELSE TYPE_SIZE(Head(properties).type))
         + Stride(Tail(properties))

HasList(element) ==
    \E i \in 1..Len(element.properties) : element.properties[i].isList

\* JavaScript's a / b on finite numbers
JsDiv(a, b) ==
    IF b[1] # 0 THEN RDiv(a, b)
    ELSE IF a[1] > 0 THEN Infinity
    ELSE IF a[1] < 0 THEN NegInfinity
    ELSE NaN

\* Math.atan in degrees, to two decimals, for the ratios of the payloads
AtanDeg(r) ==
    CASE r = NaN -> NaN
      [] r = Infinity -> RInt(90)
      [] r = NegInfinity -> RInt(-90)
      [] r = RZero -> RZero
      [] r = R(27, 50) -> R(2837, 100)
      [] r = R(24, 25) -> R(4383, 100)
      [] r = ROne -> RInt(45)

computeFovDeg(meta) ==
    LET fovX == AtanDeg(JsDiv(RDiv(meta.width, RInt(2)), meta.fx))
        fovY == AtanDeg(JsDiv(RDiv(meta.height, RInt(2)), meta.fy))
        half == IF RLe(meta.height, meta.width) THEN fovX ELSE fovY
    IN  IF IsFinite(half) THEN RMul(RInt(2), half) ELSE half

ReturnNull(x) == [x EXCEPT !.pc = "returned", !.result = [kind |-> "null"]]

StartExtraction(payload) ==
    [pc |-> "fetch", payload |-> payload, idx |-> 0, offset |-> 0,
     intrinsic |-> Null, imageSize |-> Null, result |-> [kind |-> "none"]]

\* fetch, arrayBuffer and findHeaderEnd
FetchPly ==
    /\ extraction.pc = "fetch"
    /\ extraction' =
         IF ~extraction.payload.ok \/ ~extraction.payload.terminated
         THEN ReturnNull(extraction)
         ELSE [extraction EXCEPT !.pc = "parseHeader"]
    /\ UNCHANGED <<viewerVars, app, fovEffect, fileVars,
                   splatVars, pollVars>>

\* parseHeader, and the format test that opens parseBinaryMeta
ParseHeader ==
    /\ extraction.pc = "parseHeader"
    /\ extraction' =
         IF extraction.payload.format # "binary_little_endian"
         THEN ReturnNull(extraction)
         ELSE [extraction EXCEPT !.pc = "elements", !.idx = 1]
    /\ UNCHANGED <<viewerVars, app, fovEffect, fileVars,
                   splatVars, pollVars>>

\* one round of `for (const element of header.elements)`
ParseElement ==
    /\ extraction.pc = "elements"
    /\ extraction.idx <= Len(extraction.payload.elements)
    /\ LET element == extraction.payload.elements[extraction.idx]
           read == ReadValues(extraction.payload.data, extraction.offset,
                              element, 0, <<>>)
           named == element.name \in {"intrinsic", "image_size"}
       IN  extraction' =
             IF HasList(element) THEN ReturnNull(extraction)
             ELSE IF named /\ read.raised
             THEN [extraction EXCEPT !.pc = "raised",
                                     !.result = [kind |-> "RangeError"]]
             ELSE IF element.name = "intrinsic"
             THEN [extraction EXCEPT !.intrinsic = <<read.values>>,
                                     !.offset = read.offset,
                                     !.idx = @ + 1]
             ELSE IF element.name = "image_size"
             THEN [extraction EXCEPT !.imageSize = <<read.values>>,
                                     !.offset = read.offset,
                                     !.idx = @ + 1]
             ELSE [extraction EXCEPT
                     !.offset = @ + Stride(element.properties)
                                      * element.count,
                     !.idx = @ + 1]
    /\ UNCHANGED <<viewerVars, app, fovEffect, fileVars,
                   splatVars, pollVars>>

\* the end of parseBinaryMeta, computeFovDeg and the last test of
\* fetchPlyCameraFov
ComputeFov ==
    /\ extraction.pc = "elements"
    /\ extraction.idx > Len(extraction.payload.elements)
    /\ LET intrinsic == extraction.intrinsic
           imageSize == extraction.imageSize
       IN  extraction' =
             IF \/ intrinsic = Null
                \/ imageSize = Null
             THEN ReturnNull(extraction)
             ELSE IF Len(intrinsic[1]) < 9 \/ Len(imageSize[1]) < 2
             THEN ReturnNull(extraction)
             ELSE LET meta == [fx |-> intrinsic[1][1],
                               fy |-> intrinsic[1][5],
                               width |-> imageSize[1][1],
                               height |-> imageSize[1][2]]
                  IN  IF \E v \in {meta.fx, meta.fy, meta.width,
                                   meta.height} : ~IsFinite(v)
                      THEN ReturnNull(extraction)
                      ELSE IF ~IsFinite(computeFovDeg(meta))
                      THEN ReturnNull(extraction)
                      ELSE [extraction EXCEPT
                              !.pc = "returned",
                              !.result = [kind |-> "fov",
                                          value |-> computeFovDeg(meta)]]
    /\ UNCHANGED <<viewerVars, app, fovEffect, fileVars,
                   splatVars, pollVars>>

(***************************************************************************)
(* The payloads: every order of a vertex element, an element with a list   *)
(* property, `intrinsic` and `image_size` (each present or not), short     *)
(* `intrinsic` and `image_size` elements, the other formats, a response    *)
(* that is not ok and a header without terminator; the data ends up to     *)
(* MaxMissing words before the end the header declares.                    *)
(***************************************************************************)
MaxMissing == 3

Scalar(type) == [name |-> "v", type |-> type, isList |-> FALSE]

VertexElement ==
    [name |-> "vertex", count |-> 1,
     properties |-> <<Scalar("float"), Scalar("double")>>]

FaceElement ==
    [name |-> "face", count |-> 1,
     properties |-> <<[name |-> "vertex_indices", type |-> "int",
                       isList |-> TRUE]>>]

IntrinsicElement(n) ==
    [name |-> "intrinsic", count |-> n, properties |-> <<Scalar("float")>>]

ImageSizeElement(n) ==
    [name |-> "image_size", count |-> n, properties |-> <<Scalar("uint")>>]

FullElements ==
    {VertexElement, FaceElement, IntrinsicElement(9), ImageSizeElement(2)}

HeaderLayouts ==
    {s \in UNION {[1..n -> FullElements] : n \in 0..4} :
        \A i, j \in DOMAIN s : s[i] = s[j] => i = j}
    \cup {<<IntrinsicElement(4), ImageSizeElement(2)>>,
          <<IntrinsicElement(9), ImageSizeElement(1)>>}

Focals == {<<RInt(1000), RInt(1000)>>, <<RZero, RInt(1000)>>,
           <<NaN, RInt(1000)>>}

ImageSizes == {<<RInt(1920), RInt(1080)>>, <<RInt(1080), RInt(1920)>>,
               <<RZero, RZero>>}

\* the words of one element's data
ElementData(element, focal, size) ==
    IF element.name = "intrinsic"
    THEN SubSeq(<<focal[1], RZero, RInt(960), RZero, focal[2], RInt(540),
                  RZero, RZero, ROne>>, 1, element.count)
    ELSE IF element.name = "image_size"
    THEN SubSeq(size, 1, element.count)
    ELSE IF element.name = "vertex" THEN <<RZero, RZero, RZero>>
    ELSE <<ROne, RZero>>

RECURSIVE LayoutData(_, _, _)
LayoutData(elements, focal, size) ==
    IF elements = <<>> THEN <<>>
    ELSE ElementData(Head(elements), focal, size)
         \o LayoutData(Tail(elements), focal, size)

Payload(ok, terminated, format, elements, focal, size, missing) ==
    LET data == LayoutData(elements, focal, size)
    IN  [ok |-> ok, terminated |-> terminated, format |-> format,
         elements |-> elements,
         data |-> SubSeq(data, 1, Len(data) - Min(missing, Len(data)))]

CameraLayout == <<VertexElement, IntrinsicElement(9), ImageSizeElement(2)>>

Payloads ==
    {Payload(TRUE, TRUE, "binary_little_endian", elements, focal, size,
             missing) :
        elements \in HeaderLayouts, focal \in Focals, size \in ImageSizes,
        missing \in 0..MaxMissing}
    \cup {Payload(ok, terminated, format, CameraLayout,
                  <<RInt(1000), RInt(1000)>>, <<RInt(1920), RInt(1080)>>,
                  0) :
            ok \in BOOLEAN, terminated \in BOOLEAN,
            format \in {"none", "ascii", "binary_big_endian",
                        "binary_little_endian"}}

InitMeta ==
    \E payload \in Payloads :
        LET p == PropRefs("sbs", R(12, 100), "pivot", ROne, RZero, FALSE,
                          FALSE, ROne)
        IN  /\ InitProps(p)
            /\ mountSize = ViewSize
            /\ InitScene(AfterMount("A", p, ViewSize))
            /\ app = AppInitial
            /\ extraction = StartExtraction(payload)
            /\ fovEffect = FovEffectIdle
            /\ paramsFile = Null
            /\ splat = SplatIdle
            /\ embed = EmbedIdle
            /\ polling = PollingIdle

NextMeta ==
    \/ FetchPly
    \/ ParseHeader
    \/ ParseElement
    \/ ComputeFov

SpecMeta == InitMeta /\ [][NextMeta]_vars

(***************************************************************************)
(* The metadata fov effect of App (part_003, 176-195): its dependencies    *)
(* canPreview and viewerPlyUrl change from render to render, its fetches   *)
(* complete in any order, and the user moves the fov slider meanwhile.     *)
(***************************************************************************)
MaxFetches == 3     \* calls of fetchPlyCameraFov in one run

\* the cleanup of the effect run before: `active = false` in its closure
Deactivated(fetches) ==
    LET inactive(f) == [f EXCEPT !.active = FALSE]
    IN  [g \in {inactive(f) : f \in BagToSet(fetches)} |->
            (IF BagIn(g, fetches) THEN fetches[g] ELSE 0)
            + (IF BagIn([g EXCEPT !.active = TRUE], fetches)
               THEN fetches[[g EXCEPT !.active = TRUE]] ELSE 0)]

FetchesStarted == fovEffect.fetched["A"] + fovEffect.fetched["B"]

PreviewChange_NoCleanup(cp, url) ==
    /\ <<cp, url>> # <<fovEffect.canPreview, fovEffect.viewerPlyUrl>>
    /\ cp => url # Null
    /\ FetchesStarted < MaxFetches
    /\ fovEffect' =
         IF ~cp \/ url = Null \/ fovEffect.lastPlyRef = url
         THEN [fovEffect EXCEPT !.canPreview = cp, !.viewerPlyUrl = url]
         ELSE [fovEffect EXCEPT
                 !.canPreview = cp, !.viewerPlyUrl = url,
                 !.lastPlyRef = url,
                 !.fetches = @ (+) SetToBag({[url |-> url[1],
                                              active |-> TRUE]}),
                 !.fetched[url[1]] = @ + 1]
    /\ UNCHANGED <<viewerVars, app, extraction, fileVars,
                   splatVars, pollVars>>

\* a render in which canPreview or viewerPlyUrl differs from the render
\* before: the cleanup of the last run, then the effect
PreviewChange(cp, url) ==
    /\ <<cp, url>> # <<fovEffect.canPreview, fovEffect.viewerPlyUrl>>
    /\ cp => url # Null
    /\ FetchesStarted < MaxFetches
    /\ fovEffect' =
         IF ~cp \/ url = Null \/ fovEffect.lastPlyRef = url
         THEN [fovEffect EXCEPT !.canPreview = cp, !.viewerPlyUrl = url,
                                !.fetches = Deactivated(@)]
         ELSE [fovEffect EXCEPT
                 !.canPreview = cp, !.viewerPlyUrl = url,
                 !.lastPlyRef = url,
                 !.fetches = Deactivated(@)
                             (+) SetToBag({[url |-> url[1],
                                            active |-> TRUE]}),
                 !.fetched[url[1]] = @ + 1]
    /\ UNCHANGED <<viewerVars, app, extraction, fileVars,
                   splatVars, pollVars>>

\* what `await fetchPlyCameraFov(fovSource)` gives: a fov, null, or the
\* RangeError of a truncated payload
MetaFov(url) == IF url = "A" THEN RInt(90) ELSE RInt(45)

FetchOutcomes(url) ==
    {[kind |-> "null"], [kind |-> "RangeError"],
     [kind |-> "fov", value |-> MetaFov(url)]}

\* the rest of loadFov after the await
LoadFovComplete(f, outcome) ==
    /\ BagIn(f, fovEffect.fetches)
    /\ IF f.active /\ outcome.kind = "fov"
       THEN /\ app' = [app EXCEPT !.fovDeg = clampFov(outcome.value)]
            /\ fovEffect' = [fovEffect EXCEPT
                               !.fetches = @ (-) SetToBag({f}),
                               !.applied[f.url] = @ + 1]
       ELSE /\ app' = app
            /\ fovEffect' = [fovEffect EXCEPT
                               !.fetches = @ (-) SetToBag({f})]
    /\ UNCHANGED <<viewerVars, extraction, fileVars,
                   splatVars, pollVars>>

PreviewInputs ==
    {<<FALSE, Null>>} \cup {<<cp, <<u>>>> : cp \in BOOLEAN, u \in Urls}

InitFovEffect ==
    LET p == PropRefs("sbs", R(12, 100), "pivot", ROne, RZero, FALSE,
                      FALSE, ROne)
    IN  /\ InitProps(p)
        /\ mountSize = ViewSize
        /\ InitScene(AfterMount("A", p, ViewSize))
        /\ InitAppIdle

NextFovEffect ==
    \/ \E in \in PreviewInputs : PreviewChange(in[1], in[2])
    \/ \E f \in BagToSet(fovEffect.fetches) :
         \E outcome \in FetchOutcomes(f.url) : LoadFovComplete(f, outcome)
    \/ \E v \in {RInt(30), RInt(65)} : HandleFovSlider(v)

SpecFovEffect == InitFovEffect /\ [][NextFovEffect]_vars

(***************************************************************************)
(* The stereo synthesizer as a function of what a frame reads: the viewer  *)
(* starts in any of a range of prop values, camera/target/click-point      *)
(* placements, base distances, fovs and viewport widths, and renders.      *)
(***************************************************************************)
SynthBaselines == {R(-1, 2), RZero, ROne}
SynthCompressions == {RInt(-1), RZero, R(1, 2), RInt(2)}
SynthClamps == {RInt(-1), RZero, ROne}
SynthStrengths == {RZero, ROne, RInt(2)}
SynthFovs == {60, 90}
SynthHeight == 2

\* placements: just mounted; just loaded; dollied out with a click point
\* on the far scene point; dollied in after a comfort capture far out;
\* camera sitting on the click point after set-from-pivot, pan and orbit
SynthScenes ==
    {[position |-> <<0, 0, 2>>, target |-> Origin, zp |-> Null,
      base |-> Null, points |-> Null, loadState |-> "pending"],
     [position |-> <<0, 0, 1>>, target |-> Origin, zp |-> Null,
      base |-> ROne, points |-> <<"A">>, loadState |-> "loaded"],
     [position |-> <<0, 0, 2>>, target |-> Origin, zp |-> <<0, 0, -1>>,
      base |-> ROne, points |-> <<"A">>, loadState |-> "loaded"],
     [position |-> <<0, 0, 1>>, target |-> Origin, zp |-> Origin,
      base |-> RInt(4), points |-> <<"A">>, loadState |-> "loaded"],
     [position |-> Origin, target |-> <<1, 0, 0>>, zp |-> Origin,
      base |-> ROne, points |-> <<"A">>, loadState |-> "loaded"]}

InitSynth ==
    \E m \in {"mono", "sbs"}, b \in SynthBaselines, c \in SynthCompressions,
       cl \in SynthClamps, co \in BOOLEAN, cs \in SynthStrengths,
       zm \in {"pivot", "click"}, sc \in SynthScenes, fov \in SynthFovs,
       w \in 0..MaxWidth :
        LET size == <<w, SynthHeight>>
        IN  /\ InitProps(PropRefs(m, b, zm, c, cl, FALSE, co, cs))
            /\ mountSize = size
            /\ plyUrl = "A"
            /\ error = Null
            /\ zeroParallaxPointRef = sc.zp
            /\ baseDistanceRef = sc.base
            /\ camera = [NewCamera(size) EXCEPT !.position = sc.position,
                                                 !.fov = fov]
            /\ target = sc.target
            /\ points = sc.points
            /\ loadState = sc.loadState
            /\ lastPointer = Null
            /\ adjustingFov = FALSE
            /\ lastY = 0
            /\ framingBase = [distance |-> RZero, fov |-> 0]
            /\ controlsRef = TRUE
            /\ superseded = EmptyBag
            /\ InitAppIdle
            /\ leftCamera = CloneCamera(NewCamera(size))
            /\ rightCamera = CloneCamera(NewCamera(size))
            /\ frame = Null

NextSynth ==
    \/ RenderLoop
    \/ \E m \in {"mono", "sbs"} : SetMode(m)

SpecSynth == InitSynth /\ [][NextSynth]_vars

(***************************************************************************)
(* Properties of the stereo synthesizer (checked under SpecSynth).  A      *)
(* frame that is not Null was rendered from the current state.             *)
(***************************************************************************)
FreshSbs == frame # Null /\ frame.mode = "sbs"

ZDistanceNow ==
    DistanceTo(camera.position,
               ResolveZeroParallaxPoint(zeroParallaxModeRef,
                                        zeroParallaxPointRef, target))

FocalNow == RDiv(R(mountSize[1] \div 2, 2), TanHalfFov(camera.fov))

\* x <= cl * z / f, for f >= 0 (the quotient is +Infinity at f = 0)
WithinClamp(x, cl, z, f) == f[1] = 0 \/ RLe(RMul(x, f), RMul(cl, z))

\* C1: in every SBS frame with baseline b >= 0 and compression c >= 0
\* (c = 0 included) the effective baseline before the comfort and clamp
\* steps is b * c, and it does not decrease when b or c grows.
C1_Claim ==
    (FreshSbs /\ RLe(RZero, baselineRef) /\ RLe(RZero, compressionRef)) =>
        /\ frame.preComfort = RMul(baselineRef, compressionRef)
        /\ \A b2 \in SynthBaselines :
             RLe(baselineRef, b2) =>
               RLe(frame.preComfort, PreComfortBaseline(b2, compressionRef))
        /\ \A c2 \in SynthCompressions :
             RLe(compressionRef, c2) =>
               RLe(frame.preComfort, PreComfortBaseline(baselineRef, c2))

\* C2: whatever the stereo parameters, distances and clamp, the baseline
\* that separates the two eye cameras of an SBS frame is >= 0.
C2_BaselineNonNegative ==
    FreshSbs =>
        /\ RLe(RZero, frame.offsetBaseline)
        /\ RSub(rightCamera.position, leftCamera.position)
             = frame.offsetBaseline

C2_Witness ==
    /\ FreshSbs
    /\ RLt(frame.preComfort, RZero)
    /\ frame.offsetBaseline = RZero

\* C3 as stated: in SBS mode every clampPx > 0 bounds the baseline used by
\* clampPx * zDistance / f, and clampPx <= 0 leaves the baseline unchanged.
C3_Claim ==
    FreshSbs =>
        /\ RLt(RZero, clampPxRef) =>
             WithinClamp(frame.offsetBaseline, clampPxRef, ZDistanceNow,
                         FocalNow)
        /\ RLe(clampPxRef, RZero) =>
             frame.offsetBaseline = frame.baselineValue

\* C3 amended: in SBS mode, for clampPx > 0 and zDistance > 0 the baseline
\* used is at most clampPx * zDistance / f; for clampPx <= 0, or when the
\* camera sits on the convergence point (zDistance = 0), the clamp step
\* leaves the effective baseline unchanged.
C3_ClampBound ==
    FreshSbs =>
        /\ (RLt(RZero, clampPxRef) /\ RLt(RZero, ZDistanceNow)) =>
             WithinClamp(frame.offsetBaseline, clampPxRef, ZDistanceNow,
                         FocalNow)
        /\ (RLe(clampPxRef, RZero) \/ ZDistanceNow = RZero) =>
             frame.offsetBaseline = frame.baselineValue

C3_Witness ==
    /\ FreshSbs
    /\ RLt(RZero, clampPxRef)
    /\ RLt(RZero, ZDistanceNow)
    /\ RLt(frame.offsetBaseline, frame.baselineValue)

\* C4: in every SBS frame of width w the left viewport is columns
\* [0, floor(w/2)) and the right one starts at floor(w/2) with width
\* w - floor(w/2): the widths sum to w and the rectangles do not overlap.
C4_ViewportSplit ==
    FreshSbs =>
        LET w == mountSize[1]
            h == mountSize[2]
            l == frame.renders[1].viewport
            r == frame.renders[2].viewport
        IN  /\ Len(frame.renders) = 2
            /\ l = <<0, 0, w \div 2, h>>
            /\ r = <<w \div 2, 0, w - (w \div 2), h>>
            /\ l[3] + r[3] = w
            /\ l[1] + l[3] <= r[1]

C4_Witness == FreshSbs /\ mountSize[1] % 2 = 1

\* C5: in every SBS frame each eye camera's aspect is its own viewport's
\* column count over the full height: floor(w/2)/h left, (w-floor(w/2))/h
\* right, odd widths included.
C5_Claim ==
    FreshSbs =>
        /\ leftCamera.aspect = R(mountSize[1] \div 2, mountSize[2])
        /\ rightCamera.aspect =
             R(mountSize[1] - (mountSize[1] \div 2), mountSize[2])

\* C6: a mono frame is exactly one render of the orbit camera, untouched,
\* over the full viewport, and it writes neither eye camera.
C6_MonoFrame ==
    [][(frame' # Null /\ frame' # frame /\ frame'.mode = "mono") =>
          /\ frame'.renders =
               <<[camera |-> "camera",
                  viewport |-> <<0, 0, mountSize[1], mountSize[2]>>]>>
          /\ frame'.offsetBaseline = Null
          /\ frame'.zeroParallaxPoint = Null
          /\ UNCHANGED <<leftCamera, rightCamera, camera, target>>]_vars

C6_Witness ==
    /\ frame # Null
    /\ frame.mode = "mono"
    /\ RLt(leftCamera.position, RZero)
    /\ RLt(RZero, frame.baselineValue)
    /\ RLt(RZero, clampPxRef)

(***************************************************************************)
(* Properties of the zero-parallax resolver and of picks (checked under    *)
(* Spec).                                                                  *)
(***************************************************************************)
HitsNow(aim) ==
    IF points = Null THEN {}
    ELSE RayHits(camera, target, WorldPoints(points[1]), aim)

\* C7: in zero-parallax mode "pivot" the convergence point of every frame
\* is the current orbit target, after any orbit, pan, wheel re-target, pick
\* or set-from-pivot, also when a last-click point is stored.
C7_PivotTracksTarget ==
    (FreshSbs /\ zeroParallaxModeRef = "pivot") =>
        frame.zeroParallaxPoint = target

C7_Witness ==
    /\ FreshSbs
    /\ zeroParallaxModeRef = "pivot"
    /\ zeroParallaxPointRef # Null
    /\ zeroParallaxPointRef # target

\* C8: in mode "click" the convergence point is the stored last-click point
\* if there is one and the current orbit target otherwise; in both modes
\* every frame has a convergence point (never null).
C8_ClickResolve ==
    FreshSbs =>
        /\ frame.zeroParallaxPoint # Null
        /\ zeroParallaxModeRef = "click" =>
             frame.zeroParallaxPoint =
               IF zeroParallaxPointRef # Null THEN zeroParallaxPointRef
               ELSE target

C8_Witness ==
    /\ FreshSbs
    /\ zeroParallaxModeRef = "click"
    /\ zeroParallaxPointRef # Null
    /\ zeroParallaxPointRef # target
    /\ frame.zeroParallaxPoint = zeroParallaxPointRef

\* C9: a double-click whose ray hits the scene sets the orbit target and
\* the last-click point to the nearest hit, so right after it both are
\* equal and the convergence point is that hit in both modes.
C9_PickHit ==
    [][\A aim \in Aims(plyUrl) :
          (HandleDblClick(aim) /\ HitsNow(aim) # {}) =>
              /\ target' \in HitsNow(aim)
              /\ \A r \in HitsNow(aim) :
                   DistanceSq(camera.position, target')
                     <= DistanceSq(camera.position, r)
              /\ zeroParallaxPointRef' = target'
              /\ ResolveZeroParallaxPoint("pivot", zeroParallaxPointRef',
                                          target') = target'
              /\ ResolveZeroParallaxPoint("click", zeroParallaxPointRef',
                                          target') = target']_vars

C9_Witness ==
    /\ points # Null
    /\ lastPointer = Null
    /\ target = <<0, 0, -1>>
    /\ zeroParallaxPointRef = target
    /\ frame = Null

\* C10: a double-click whose ray hits nothing, or that comes before the
\* geometry has loaded, changes neither the orbit target nor the last-click
\* point nor the camera, and reports no failure.
C10_PickMiss ==
    [][\A aim \in Aims(plyUrl) :
          (HandleDblClick(aim) /\ HitsNow(aim) = {}) =>
              UNCHANGED <<target, zeroParallaxPointRef, camera, error,
                          points, loadState>>]_vars

C10_Witness ==
    /\ points = Null
    /\ loadState = "pending"
    /\ frame = Null
    /\ zeroParallaxPointRef = Null
    /\ target = Origin
    /\ camera = NewCamera(mountSize)
    /\ lastPointer = Null

(***************************************************************************)
(* Properties of the explicit set-from-pivot operation (checked under      *)
(* Spec).                                                                  *)
(***************************************************************************)
\* C11: set-zero-parallax-from-pivot stores a copy of the current orbit
\* target as the last-click point and changes nothing else; while no viewer
\* is mounted it changes nothing; a later change of the orbit target leaves
\* the stored point alone, unless the same step is a pick hit (which stores
\* the new target) or a scene change (which clears the point).
C11_SetFromPivot ==
    [][/\ SetZeroParallaxFromPivot =>
            /\ zeroParallaxPointRef' =
                 IF controlsRef THEN target ELSE zeroParallaxPointRef
            /\ UNCHANGED <<target, camera, baseDistanceRef, points, plyUrl,
                           loadState, error, propRefs, eyeCameras>>
       /\ (target' # target /\ zeroParallaxPointRef' # zeroParallaxPointRef)
            => (zeroParallaxPointRef' = target' \/ plyUrl' # plyUrl)]_vars

C11_Witness ==
    /\ controlsRef
    /\ points = Null
    /\ zeroParallaxPointRef = Origin
    /\ target # Origin
    /\ frame = Null

(***************************************************************************)
(* Properties of scene changes, superseded loads and the comfort lock      *)
(* (checked under SpecLife, where the zero-parallax mode is "click").      *)
(***************************************************************************)
\* C12: a change of plyUrl resets the last-click point to none, and the
\* first frame of the new scene converges on its orbit target; the
\* last-click point becomes a point only by a pick hit or set-from-pivot of
\* the current scene (it is then the orbit target), so a point stored for an
\* earlier scene is never used for a later one.
C12_SceneChangeResets ==
    [][/\ plyUrl' # plyUrl =>
            /\ zeroParallaxPointRef' = Null
            /\ frame' # Null
            /\ frame'.zeroParallaxPoint = target'
       /\ (zeroParallaxPointRef' # zeroParallaxPointRef
             /\ zeroParallaxPointRef' # Null) =>
            /\ plyUrl' = plyUrl
            /\ zeroParallaxPointRef' = target']_vars

C12_Witness ==
    /\ plyUrl = "B"
    /\ loadState = "pending"
    /\ superseded # EmptyBag
    /\ zeroParallaxPointRef = Null
    /\ FreshSbs
    /\ frame.zeroParallaxPoint = target

\* C13: the late completion (success or failure) of a load that a scene
\* change has superseded changes none of the comfort base distance, the
\* last-click point, the camera, the orbit target and the displayed geometry
\* of the current scene.
C13_Claim ==
    [][\A l \in BagToSet(superseded) :
          (SupersededLoadComplete(l) \/ SupersededLoadError(l)) =>
              UNCHANGED <<baseDistanceRef, zeroParallaxPointRef, camera,
                          target, points>>]_vars

C15_Claim ==
    (FreshSbs /\ comfortLockRef) =>
        /\ Truthy(baseDistanceRef)
        /\ frame.baselineValue =
             FloorBaseline(RMul(frame.preComfort,
                                ComfortScale(DistanceTo(camera.position,
                                                        target),
                                             baseDistanceRef,
                                             comfortStrengthRef)))

\* C16: the completion of the scene's load captures baseDistance only if
\* none has been captured: a baseDistance captured by activating comfort
\* lock while the load was pending is not overwritten by the completion.
C16_Claim ==
    [][(LoadComplete /\ comfortLockRef /\ baseDistanceRef # Null) =>
          UNCHANGED baseDistanceRef]_vars

(***************************************************************************)
(* The comfort scale (checked under SpecSynth).                            *)
(***************************************************************************)
CurrentDistanceNow == DistanceTo(camera.position, target)

\* 1 + (currentDistance / baseDistance - 1) * comfortStrength
ScaleNow ==
    RAdd(ROne, RMul(RSub(RDiv(CurrentDistanceNow, baseDistanceRef), ROne),
                    comfortStrengthRef))

RAbs(a) == <<Abs(a[1]), a[2]>>

\* baseDistance * tan(baseFov / 2) / tan(fov / 2) for the gesture's base
FramedDistance(base, fov) ==
    RDiv(RMul(base.distance, TanHalfFov(base.fov)), TanHalfFov(fov))

\* C18: every update step of a fov drag with framing lock on leaves the
\* camera on its previous target-to-camera direction, at the distance d'
\* with d' * tan(newFov/2) = baseDistance * tan(baseFov/2) for the distance
\* and fov captured when the gesture began (d' to the nearest lattice
\* point), also when the lock was switched on in the middle of the drag.
C18_FramingLock ==
    [][\A ev \in DragEvents :
          (HandlePointerMove(ev) /\ adjustingFov /\ framingLockRef) =>
              /\ camera'.fov = NextFov(camera.fov, ev.clientY - lastY)
              /\ VCross(VSub(camera'.position, target),
                        VSub(camera.position, target)) = <<0, 0, 0>>
              /\ VDot(VSub(camera'.position, target),
                      VSub(camera.position, target)) > 0
              /\ RLe(RMul(RInt(2),
                          RAbs(RSub(DistanceTo(camera'.position, target),
                                    FramedDistance(framingBase,
                                                   camera'.fov)))),
                     ROne)
              /\ UNCHANGED <<target, framingBase>>]_vars

C18_Witness ==
    /\ adjustingFov
    /\ framingLockRef
    /\ framingBase = [distance |-> RInt(DragDistance), fov |-> 60]
    /\ camera.fov = 90
    /\ RLt(DistanceTo(camera.position, target), RInt(DragDistance))
    /\ RLe(RMul(RInt(2),
                RAbs(RSub(DistanceTo(camera.position, target),
                          FramedDistance(framingBase, 90)))),
           ROne)

\* the effective baseline of the frame rendered right after the update step
\* for ev, had the framing lock been on (lock = TRUE) or off
BaselineAfterMove(ev, lock) ==
    BaselineValueOf(baselineRef, compressionRef, comfortLockRef,
                    baseDistanceRef,
                    FovAdjusted(camera, target, framingBase, lock,
                                NextFov(camera.fov, ev.clientY - lastY)),
                    target, comfortStrengthRef)

DistanceAfterMove(ev, lock) ==
    DistanceTo(FovAdjusted(camera, target, framingBase, lock,
                           NextFov(camera.fov, ev.clientY - lastY)).position,
               target)

\* C19 as stated: with comfort lock active, the same update step of a fov
\* drag gives the next frame the same effective baseline whether framing
\* lock is on or off.
C19_Claim ==
    (adjustingFov /\ comfortLockRef) =>
        \A ev \in DragEvents :
            BaselineAfterMove(ev, TRUE) = BaselineAfterMove(ev, FALSE)

\* C19 amended: the two locks write disjoint state.  Switching framing lock
\* writes only its flag; an update step of the fov drag writes only the
\* camera (its position only while framing lock is on) and never the
\* baseline, compression, comfort flag, comfort strength or baseDistance;
\* the effective baseline of a frame depends on the gestures only through
\* the camera-to-target distance, so it is the same with framing lock on
\* or off whenever that distance is the same.
C19_DisjointWrites ==
    [][/\ framingLockRef' # framingLockRef =>
            UNCHANGED <<camera, target, baseDistanceRef, baselineRef,
                        compressionRef, clampPxRef, comfortLockRef,
                        comfortStrengthRef>>
       /\ \A ev \in DragEvents :
            /\ HandlePointerMove(ev) =>
                 /\ UNCHANGED <<target, baseDistanceRef, propRefs>>
                 /\ camera'.position # camera.position =>
                      (adjustingFov /\ framingLockRef)
                 /\ BaselineValueOf(baselineRef, compressionRef,
                                    comfortLockRef, baseDistanceRef, camera',
                                    target, comfortStrengthRef)
                      = BaselineAfterMove(ev, adjustingFov /\ framingLockRef)
            /\ DistanceAfterMove(ev, TRUE) = DistanceAfterMove(ev, FALSE) =>
                 BaselineAfterMove(ev, TRUE) = BaselineAfterMove(ev, FALSE)
      ]_vars

C19_Witness ==
    /\ adjustingFov
    /\ framingLockRef
    /\ comfortLockRef
    /\ Truthy(baseDistanceRef)
    /\ DistanceTo(camera.position, target) # framingBase.distance
    /\ Rendered(Current).frame.baselineValue
         = RMul(RMul(baselineRef, compressionRef),
                RDiv(DistanceTo(camera.position, target), baseDistanceRef))

(***************************************************************************)
(* Properties of App's parameters (checked under SpecApp).                 *)
(***************************************************************************)
\* C20: fovDeg is in [20, 110] in every reachable state, after any slider
\* edits, params imports, viewer fov notifications, metadata fovs and
\* resets; a candidate that is not finite yields 65.
C20_FovRange ==
    /\ IsFinite(app.fovDeg)
    /\ RLe(RInt(20), app.fovDeg)
    /\ RLe(app.fovDeg, RInt(110))
    /\ clampFov(NaN) = RInt(65)
    /\ clampFov(Infinity) = RInt(65)
    /\ \A v \in FovValues :
         /\ ~IsFinite(v) => ImportedViewer(app, FullViewer(v)).fovDeg
                              = RInt(65)
         /\ RLe(RInt(20), clampFov(v)) /\ RLe(clampFov(v), RInt(110))

C20_Witness ==
    /\ app.fovDeg = RInt(110)
    /\ app.mode = "sbs"
    /\ app.zeroParallaxMode = "pivot"
    /\ app.error # Null

C22_Claim ==
    [][\A ev \in DragEvents :
         (adjustingFov /\ HandlePointerMove(ev)) =>
             camera'.fov = Min(110, Max(20, camera.fov
                                              + (ev.clientY - lastY) \div 10))
      ]_vars

(***************************************************************************)
(* Properties of the metadata extractor (checked under SpecMeta).          *)
(***************************************************************************)
\* C23: metadata extraction never raises: for every payload, also one whose
\* header declares `intrinsic` or `image_size` data past the end of the
\* payload, fetchPlyCameraFov returns a finite fov or null.
C23_Claim ==
    /\ extraction.pc # "raised"
    /\ extraction.pc = "returned" =>
         \/ extraction.result.kind = "null"
         \/ /\ extraction.result.kind = "fov"
            /\ IsFinite(extraction.result.value)

DeclaredValues(payload, name) ==
    {e.count * Len(e.properties) :
        e \in {payload.elements[i] : i \in DOMAIN payload.elements} \cap
              {e \in FullElements \cup {IntrinsicElement(4),
                                        ImageSizeElement(1)} :
                 e.name = name}}

\* the cases in which the result has to be null
NoMetadata(payload) ==
    \/ ~payload.terminated
    \/ payload.format # "binary_little_endian"
    \/ \E i \in DOMAIN payload.elements : HasList(payload.elements[i])
    \/ \A n \in DeclaredValues(payload, "intrinsic") : n < 9
    \/ \A n \in DeclaredValues(payload, "image_size") : n < 2

\* C24: extraction returns null when the header terminator or the format
\* line is missing, when the format is ascii or binary_big_endian, when any
\* element of the header, wherever it stands relative to `intrinsic` and
\* `image_size`, has a list property, and when `intrinsic` yields fewer
\* than 9 values or `image_size` fewer than 2; a fov that is returned is
\* finite and comes from finite fx, fy, width and height.
C24_Claim ==
    /\ (extraction.pc \in {"returned", "raised"}
        /\ NoMetadata(extraction.payload)) =>
           extraction.result.kind = "null"
    /\ (extraction.pc = "returned" /\ extraction.result.kind = "fov") =>
           /\ IsFinite(extraction.result.value)
           /\ IsFinite(extraction.intrinsic[1][1])
           /\ IsFinite(extraction.intrinsic[1][5])

(***************************************************************************)
(* Properties of the metadata fov effect (checked under SpecFovEffect).    *)
(***************************************************************************)
\* C25: over any sequence of changes of the previewed geometry reference,
\* also one that returns to a reference previewed before (A, B, A), the
\* metadata fov of a reference is fetched and applied at most once.
C25_Claim ==
    \A u \in Urls : fovEffect.fetched[u] <= 1 /\ fovEffect.applied[u] <= 1

\* the fetch of loadFov that is not superseded: it is still active
ActiveFetches == {f \in BagToSet(fovEffect.fetches) : f.active}

C27_Claim ==
    [][ImportExported => ViewerParams(app') = paramsFile.from]_vars

(***************************************************************************)
(* Properties of imports into a rendering viewer (checked under            *)
(* SpecImport).                                                            *)
(***************************************************************************)
\* C28: out-of-range or invalid imported parameters are never rejected and
\* never leave the viewer unrenderable: an imported fovDeg outside
\* [20, 110] is clamped into it, a negative baseline gives effective
\* baseline 0, a negative clampPx makes the clamp a no-op, the legacy
\* zeroParallaxMode "slider" becomes "pivot", and a field that is missing,
\* ill-typed or no value of its enum keeps the parameter's previous value
\* while the other fields are applied.
C28_Claim ==
    /\ app.error = Null
    /\ RLe(RInt(20), app.fovDeg) /\ RLe(app.fovDeg, RInt(110))
    /\ app.mode \in {"mono", "sbs"}
    /\ app.zeroParallaxMode \in {"pivot", "click"}
    /\ FreshSbs =>
         /\ RLe(RZero, frame.offsetBaseline)
         /\ RLt(baselineRef, RZero) => frame.baselineValue = RZero
         /\ RLt(clampPxRef, RZero) =>
              frame.offsetBaseline = frame.baselineValue

\* ---------------------------------------------------------------------
\* SuperSplatViewer: capture and captureAsync, and App's handleExportImage
\* ---------------------------------------------------------------------

\* a data URL
Image == <<"data:image">>

\* exportSize of handleExportImage
ExportSize == <<1920, 1080>>

\* what render.offscreen does for one call: events.invoke is missing, the
\* request resolves to undefined, every pixel is zero, no 2d context, an
\* exception, or pixels that encode
OffscreenOutcomes ==
    {"unavailable", "undefined", "zero", "nocontext", "throws", "ok"}

\* captureWithOffscreen(format, width, height, true): the data URL or
\* null; every exception is caught
captureWithOffscreen(outcome) == IF outcome = "ok" THEN Image ELSE Null

\* the error state after captureWithOffscreen, called silent
OffscreenError(s, outcome) ==
    IF outcome = "throws" THEN <<"Failed to capture image: offscreen">>
    ELSE s.error

\* capture(format) without the test for a missing canvas
capture_NoCanvasCheck(s, throws) == IF throws THEN Null ELSE Image

\* capture(format): null without a canvas, null (and the error state set)
\* when toDataURL throws
capture(s, throws) ==
    IF ~s.viewer THEN Null ELSE IF throws THEN Null ELSE Image

CaptureError(s, throws) ==
    IF s.viewer /\ throws THEN <<"Failed to capture image: encode">>
    ELSE s.error

\* captureAsync up to its first await: null without a canvas
Started(s, i, size) ==
    [s EXCEPT !.calls[i] =
        IF ~s.viewer
        THEN [pc |-> "done", size |-> size, path |-> "nosurface",
              preCanvas |-> s.canvas, preStyle |-> s.style,
              result |-> Null]
        ELSE [pc |-> "frame", size |-> size, path |-> "offscreen",
              preCanvas |-> s.canvas, preStyle |-> s.style]]

CaptureStart(i, size) ==
    /\ splat.calls[i].pc = "none"
    /\ splat' = Started(splat, i, size)
    /\ UNCHANGED <<viewerVars, app, asyncVars, fileVars, embed,
                   pollVars>>

\* after the first frame: the offscreen capture, returned when it gives a
\* data URL; otherwise the sizes are saved, and with a scene and a
\* non-zero size the container and the canvas are asked to take the
\* requested size
CaptureOffscreen(i, outcome) ==
    LET c == splat.calls[i]
        resize == splat.hasScene /\ c.size[1] # 0 /\ c.size[2] # 0
    IN /\ c.pc = "frame"
       /\ splat' =
            IF captureWithOffscreen(outcome) # Null
            THEN [splat EXCEPT
                    !.calls[i] = [pc |-> "done", size |-> c.size,
                                  path |-> "offscreen",
                                  preCanvas |-> c.preCanvas,
                                  preStyle |-> c.preStyle,
                                  result |-> Image]]
            ELSE [splat EXCEPT
                    !.error = OffscreenError(splat, outcome),
                    !.style = IF resize /\ splat.container THEN c.size
                              ELSE @,
                    !.canvasResize = IF resize THEN c.size ELSE @,
                    !.calls[i] = [pc |-> "resized", size |-> c.size,
                                  path |-> "resize",
                                  preCanvas |-> c.preCanvas,
                                  preStyle |-> c.preStyle,
                                  offscreen |-> outcome,
                                  originalCanvas |-> splat.canvas,
                                  originalStyle |-> splat.style]]
       /\ UNCHANGED <<viewerVars, app, asyncVars, fileVars, embed,
                   pollVars>>

\* the first of the two frames awaited after the resize
CaptureFrame(i) ==
    /\ splat.calls[i].pc = "resized"
    /\ splat' = [splat EXCEPT !.calls[i].pc = "encode"]
    /\ UNCHANGED <<viewerVars, app, asyncVars, fileVars, embed,
                   pollVars>>

\* the state a call leaves when it encodes the canvas and restores the
\* sizes; the restore is skipped when the encode throws
Encoded_NoRestoreOnThrow(s, i, throws) ==
    LET c == s.calls[i]
    IN [s EXCEPT
          !.error = IF throws THEN <<"Failed to capture image: encode">>
                    ELSE @,
          !.canvasResize =
              IF ~throws /\ s.hasScene /\ s.canvas # c.originalCanvas
              THEN c.originalCanvas ELSE @,
          !.style = IF ~throws /\ s.container THEN c.originalStyle ELSE @,
          !.calls[i] = [pc |-> "done", size |-> c.size, path |-> "resize",
                        preCanvas |-> c.preCanvas,
                        preStyle |-> c.preStyle,
                        offscreen |-> c.offscreen,
                        encodeThrew |-> throws,
                        canvasAtEncode |-> s.canvas,
                        result |-> IF throws THEN Null ELSE Image]]

\* the state a call leaves when it encodes the canvas and restores the
\* sizes: toDataURL inside try/catch, then the canvas asked back to its
\* original size if its size differs, then the container style put back
Encoded(s, i, throws) ==
    LET c == s.calls[i]
    IN [s EXCEPT
          !.error = IF throws THEN <<"Failed to capture image: encode">>
                    ELSE @,
          !.canvasResize =
              IF s.hasScene /\ s.canvas # c.originalCanvas
              THEN c.originalCanvas ELSE @,
          !.style = IF s.container THEN c.originalStyle ELSE @,
          !.calls[i] = [pc |-> "done", size |-> c.size, path |-> "resize",
                        preCanvas |-> c.preCanvas,
                        preStyle |-> c.preStyle,
                        offscreen |-> c.offscreen,
                        encodeThrew |-> throws,
                        canvasAtEncode |-> s.canvas,
                        result |-> IF throws THEN Null ELSE Image]]

\* after the second frame: encode, restore, return
CaptureEncode(i, throws) ==
    /\ splat.calls[i].pc = "encode"
    /\ splat' = Encoded(splat, i, throws)
    /\ UNCHANGED <<viewerVars, app, asyncVars, fileVars, embed,
                   pollVars>>

\* a frame of the embedded viewer: the requested canvas size is taken
ViewerFrame ==
    /\ splat.canvasResize # Null
    /\ splat' = [splat EXCEPT !.canvas = splat.canvasResize,
                              !.canvasResize = Null]
    /\ UNCHANGED <<viewerVars, app, asyncVars, fileVars, embed,
                   pollVars>>

\* handleExportImage up to its await: captureAsync(format, exportSize)
HandleExportImage(i) ==
    /\ splat.export.pc = "none"
    /\ splat.calls[i].pc = "none"
    /\ splat' = [Started(splat, i, ExportSize) EXCEPT
                    !.export = [pc |-> "awaiting", call |-> i,
                                from |-> ViewerParams(app)]]
    /\ UNCHANGED <<viewerVars, app, asyncVars, fileVars, embed,
                   pollVars>>

\* the data URL handleExportImage ends with: captureAsync's, or
\* capture's when that is null
ExportDataUrl(s, throws) ==
    IF s.calls[s.export.call].result # Null
    THEN s.calls[s.export.call].result
    ELSE capture(s, throws)

\* handleExportImage after captureAsync has returned: without a data URL
\* the error is set and nothing is downloaded
HandleExportImageDone(throws) ==
    LET e == splat.export
        c == splat.calls[e.call]
        usesCapture == c.result = Null
        dataUrl == ExportDataUrl(splat, throws)
    IN /\ e.pc = "awaiting"
       /\ c.pc = "done"
       /\ splat' = [splat EXCEPT
                      !.error = IF usesCapture
                                THEN CaptureError(splat, throws) ELSE @,
                      !.export = [pc |-> "done", call |-> e.call,
                                  from |-> e.from,
                                  captureThrew |-> usesCapture /\ throws,
                                  dataUrl |-> dataUrl]]
       /\ app' = IF dataUrl = Null
                 THEN [app EXCEPT !.error = <<"Failed to capture image">>]
                 ELSE app
       /\ UNCHANGED <<viewerVars, asyncVars, fileVars, embed, pollVars>>

\* the sizes captureAsync is asked for: the export size, the live size,
\* a size with a zero width
CaptureSizes == {ExportSize, CanvasSize, <<0, 1080>>}

\* the viewer parameters App has when an image is exported
ExportFovs == {65, 90}

\* one captureAsync call, direct or from handleExportImage, on a mounted
\* component whose embedded viewer, scene and container may be missing
InitCapture ==
    /\ LET p == PropRefs("sbs", R(12, 100), "pivot", ROne, RZero, FALSE,
                         FALSE, ROne)
       IN  /\ InitProps(p)
           /\ mountSize = ViewSize
           /\ InitScene(AfterMount("A", p, ViewSize))
    /\ \E fov \in ExportFovs, v, sc, ct \in BOOLEAN,
          st \in {Null, <<3, 3>>} :
          /\ app = [AppInitial EXCEPT !.fovDeg = RInt(fov)]
          /\ splat = [SplatIdle EXCEPT !.viewer = v, !.hasScene = sc,
                                       !.container = ct, !.style = st]
    /\ extraction = ExtractionIdle
    /\ fovEffect = FovEffectIdle
    /\ paramsFile = Null
    /\ embed = EmbedIdle
    /\ polling = PollingIdle

NextCapture ==
    \/ \E size \in CaptureSizes : CaptureStart(1, size)
    \/ \E outcome \in OffscreenOutcomes : CaptureOffscreen(1, outcome)
    \/ CaptureFrame(1)
    \/ \E throws \in BOOLEAN : CaptureEncode(1, throws)
    \/ ViewerFrame
    \/ HandleExportImage(1)
    \/ \E throws \in BOOLEAN : HandleExportImageDone(throws)

SpecCapture == InitCapture /\ [][NextCapture]_vars

\* C29: a single captureAsync call for a size other than the live one
\* that falls back to the resize path returns with the container's style
\* width and height at their values from before the call and, if the
\* canvas size has changed, with a resize back to the canvas size from
\* before the call requested; this holds whether the final encode
\* succeeds or throws
C29_Restore ==
    [][\A throws \in BOOLEAN :
        LET c == splat.calls[1]
        IN (CaptureEncode(1, throws) /\ c.size # c.preCanvas) =>
            /\ splat'.calls[1].pc = "done"
            /\ splat'.style = c.preStyle
            /\ (splat.canvas # c.preCanvas =>
                   splat'.canvasResize = c.preCanvas)]_vars

\* the call has returned on the resize path after a throwing encode, with
\* the canvas at the export size when it encoded
C29_Witness ==
    LET c == splat.calls[1]
    IN /\ c.pc = "done"
       /\ c.path = "resize"
       /\ c.encodeThrew
       /\ c.size = ExportSize
       /\ c.canvasAtEncode = ExportSize
       /\ c.preStyle # Null
       /\ splat.style = c.preStyle
       /\ splat.canvasResize = CanvasSize

\* C30: a capture that fails ends in null: captureAsync returns null
\* without a render surface, and when the offscreen capture gives nothing
\* and the encode of the fallback throws; capture returns null without a
\* render surface and when the encode throws; handleExportImage, left
\* without a data URL, sets the error 'Failed to capture image' and
\* leaves the ten viewer parameters as they were
C30_Claim ==
    LET c == splat.calls[1]
        e == splat.export
    IN /\ c.pc \in {"none", "frame", "resized", "encode", "done"}
       /\ c.pc = "done" =>
            /\ c.result \in {Null, Image}
            /\ c.path = "nosurface" => c.result = Null
            /\ c.path = "offscreen" => c.result = Image
            /\ c.path = "resize" =>
                 /\ c.offscreen # "ok"
                 /\ c.encodeThrew => c.result = Null
       /\ e.pc = "done" =>
            /\ e.dataUrl \in {Null, Image}
            /\ (c.result = Null /\ (~splat.viewer \/ e.captureThrew)) =>
                  e.dataUrl = Null
            /\ e.dataUrl = Null =>
                  /\ app.error = <<"Failed to capture image">>
                  /\ ViewerParams(app) = e.from
            /\ e.dataUrl # Null => app.error = Null

\* handleExportImage has ended without a data URL: the offscreen capture
\* gave only zero pixels, the fallback's encode threw and so did capture's
C30_Witness ==
    LET c == splat.calls[1]
        e == splat.export
    IN /\ e.pc = "done"
       /\ e.dataUrl = Null
       /\ e.captureThrew
       /\ c.path = "resize"
       /\ c.offscreen = "zero"
       /\ c.encodeThrew
       /\ app.error = <<"Failed to capture image">>
       /\ app.fovDeg = RInt(90)

(***************************************************************************)
(* Picks among the other gestures: scene "A" is mounted in mode "click";   *)
(* its load, double clicks, orbits, pans, dollies, wheel events,           *)
(* ctrl-drags of the fov and changes of the stereo props come in any       *)
(* order.                                                                  *)
(***************************************************************************)
InitClick ==
    LET p == PropRefs("sbs", R(12, 100), "click", ROne, RZero, FALSE, FALSE,
                      ROne)
    IN  /\ InitProps(p)
        /\ mountSize = ViewSize
        /\ InitScene(AfterMount("A", p, ViewSize))
        /\ InitAppIdle

\* a ctrl-drag downwards by 300 px
DragDown == [clientX |-> 0, clientY |-> 0, button |-> 0, ctrlKey |-> TRUE]

DragMove == [clientX |-> 0, clientY |-> 300, button |-> 0, ctrlKey |-> TRUE]

NextClick ==
    \/ RenderLoop
    \/ LoadComplete
    \/ \E aim \in LifeAims : HandleDblClick(aim)
    \/ Orbit(1)
    \/ \E v \in PanSteps : Pan(v)
    \/ Dolly("out")
    \/ \E aim \in LifeAims : HandleWheel("none", aim)
    \/ HandlePointerDown(DragDown)
    \/ HandlePointerMove(DragMove)
    \/ HandlePointerUp
    \/ \E m \in {"pivot", "click"} : SetZeroParallaxMode(m)

SpecClick == InitClick /\ [][NextClick]_vars

\* C33: orbit, pan, dolly, wheel re-targeting, fov-adjust drags and changes
\* of the stereo props leave the stored last-click point as it is; so in
\* mode "click", once a point is picked, every frame converges on that
\* point, wherever the orbit target has moved.
C33_LastClick ==
    /\ [][(\/ Orbit(1)
           \/ \E v \in PanSteps : Pan(v)
           \/ Dolly("out")
           \/ \E aim \in LifeAims : HandleWheel("none", aim)
           \/ HandlePointerDown(DragDown)
           \/ HandlePointerMove(DragMove)
           \/ HandlePointerUp
           \/ \E m \in {"pivot", "click"} : SetZeroParallaxMode(m))
          => zeroParallaxPointRef' = zeroParallaxPointRef]_vars
    /\ [][(RenderLoop /\ zeroParallaxModeRef = "click"
                      /\ zeroParallaxPointRef # Null)
          => frame'.zeroParallaxPoint = zeroParallaxPointRef]_vars

\* a frame in mode "click" after a pick, a wheel re-target away from the
\* picked point and a fov drag
C33_Witness ==
    /\ FreshSbs
    /\ zeroParallaxModeRef = "click"
    /\ zeroParallaxPointRef = <<0, 0, -1>>
    /\ target = Origin
    /\ camera.fov = 90
    /\ lastPointer # Null
    /\ frame.zeroParallaxPoint = zeroParallaxPointRef

(***************************************************************************)
(* The metadata fov effect when every geometry reference has valid camera  *)
(* metadata: each fetch gives the fov of its reference, and each fetch in  *)
(* flight completes.                                                       *)
(***************************************************************************)
ValidOutcome(url) == [kind |-> "fov", value |-> MetaFov(url)]

LoadFovSettles ==
    \E f \in BagToSet(fovEffect.fetches) :
        LoadFovComplete(f, ValidOutcome(f.url))

NextFovLive ==
    \/ \E in \in PreviewInputs : PreviewChange(in[1], in[2])
    \/ LoadFovSettles
    \/ \E v \in {RInt(30), RInt(65)} : HandleFovSlider(v)

SpecFovLive ==
    InitFovEffect /\ [][NextFovLive]_vars /\ WF_vars(LoadFovSettles)

\* C37: when reference "A", whose metadata is valid, is previewed from
\* some moment on and stays the reference, its metadata fov is applied at
\* some moment, also when the preview was interrupted and resumed while
\* the fetch was in flight
C37_Claim ==
    <>[](fovEffect.canPreview /\ fovEffect.viewerPlyUrl = <<"A">>)
        => <>(fovEffect.applied["A"] > 0)

(***************************************************************************)
(* Two captureAsync calls for the export size; the second may start at any *)
(* moment after the first has started, also while the first is waiting for *)
(* a frame.  The embedded viewer is prompt: by the time a call encodes,    *)
(* the canvas has taken the size that call asked for.                      *)
(***************************************************************************)
PromptEncode(i, throws) ==
    /\ splat.calls[i].pc = "encode"
    /\ splat.canvasResize # splat.calls[i].size
    /\ CaptureEncode(i, throws)

NextOverlap ==
    \/ CaptureStart(1, ExportSize)
    \/ splat.calls[1].pc # "none" /\ CaptureStart(2, ExportSize)
    \/ \E i \in CallIds, outcome \in OffscreenOutcomes :
          CaptureOffscreen(i, outcome)
    \/ \E i \in CallIds : CaptureFrame(i)
    \/ \E i \in CallIds, throws \in BOOLEAN : PromptEncode(i, throws)
    \/ ViewerFrame

SpecOverlap == InitCapture /\ [][NextOverlap]_vars

\* the canvas size in force: the size requested and not yet taken, or else
\* the size of the canvas
RequestedCanvas ==
    IF splat.canvasResize # Null THEN splat.canvasResize ELSE splat.canvas

\* C39: once every captureAsync call has returned, also two calls that
\* overlapped, the container's style size and the requested canvas size
\* are those from before the first call
C39_Claim ==
    (\A i \in CallIds : splat.calls[i].pc = "done") =>
        /\ splat.style = splat.calls[1].preStyle
        /\ RequestedCanvas = splat.calls[1].preCanvas

(***************************************************************************)
(* SuperSplatViewer: the prop effects, the mount effect with its two       *)
(* awaits (the import of the embed module, createEmbeddedViewer) and its   *)
(* cleanup.  App renders the component with a non-empty plyUrl only.       *)
(***************************************************************************)
MaxPropChanges == 3     \* prop changes in one run

\* the effect of [mode, baseline, ...]: stereoRef, and setStereo when a
\* viewer is referenced
StereoPushed(e, m) ==
    LET r == [e EXCEPT !.props.mode = m, !.stereoRef = m,
                       !.changes = @ + 1]
    IN  IF e.viewerRef = Null THEN r
        ELSE [r EXCEPT !.viewers[e.viewerRef[1]].stereo = Append(@, m)]

\* the effect of [fovDeg]: fovRef, and setFov when a viewer is referenced
FovPushed(e, f) ==
    LET r == [e EXCEPT !.props.fovDeg = f, !.fovRef = f, !.changes = @ + 1]
    IN  IF e.viewerRef = Null THEN r
        ELSE [r EXCEPT !.viewers[e.viewerRef[1]].fov = Append(@, f)]

\* the two effects of [plyUrl]: plyUrlRef, and loadPly when a viewer is
\* referenced and the url is not empty
PlyPushed(e, u) ==
    LET r == [e EXCEPT !.props.plyUrl = u, !.plyUrlRef = u,
                       !.changes = @ + 1]
    IN  IF e.viewerRef = Null \/ u = "" THEN r
        ELSE [r EXCEPT !.viewers[e.viewerRef[1]].loads = Append(@, u)]

SetStereoProp(m) ==
    /\ embed.mounted
    /\ m # embed.props.mode
    /\ embed.changes < MaxPropChanges
    /\ embed' = StereoPushed(embed, m)
    /\ UNCHANGED <<viewerVars, app, asyncVars, fileVars, splat, pollVars>>

SetFovProp(f) ==
    /\ embed.mounted
    /\ f # embed.props.fovDeg
    /\ embed.changes < MaxPropChanges
    /\ embed' = FovPushed(embed, f)
    /\ UNCHANGED <<viewerVars, app, asyncVars, fileVars, splat, pollVars>>

SetPlyUrlProp(u) ==
    /\ embed.mounted
    /\ u # embed.props.plyUrl
    /\ embed.changes < MaxPropChanges
    /\ embed' = PlyPushed(embed, u)
    /\ UNCHANGED <<viewerVars, app, asyncVars, fileVars, splat, pollVars>>

\* `await import("supersplat/src/embed")` settles: the catch, the return
\* of a disposed mount, or the call of createEmbeddedViewer
ImportSettles(ok) ==
    /\ embed.pc = "importing"
    /\ embed' =
         IF ~ok
         THEN [embed EXCEPT !.pc = "failed",
                            !.error = <<"Failed to init SuperSplat">>]
         ELSE IF embed.disposed THEN [embed EXCEPT !.pc = "returned"]
         ELSE [embed EXCEPT !.pc = "creating"]
    /\ UNCHANGED <<viewerVars, app, asyncVars, fileVars, splat, pollVars>>

\* the embedded viewer a mount creates, given the mount-time props instead
\* of the refs
Created_MountProps(e) ==
    [destroyed |-> FALSE, listener |-> TRUE,
     stereo |-> <<EmbedProps.mode>>, fov |-> <<EmbedProps.fovDeg>>,
     loads |-> IF EmbedProps.plyUrl # "" THEN <<EmbedProps.plyUrl>>
               ELSE <<>>,
     lateLoad |-> ~e.mounted /\ EmbedProps.plyUrl # ""]

\* the embedded viewer a mount creates and what mount() pushes to it at
\* once: setStereo(stereoRef.current), setFov(fovRef.current), the
\* camera.fov listener, loadPly(plyUrlRef.current) for a non-empty url;
\* lateLoad records a load started on an unmounted component
Created(e) ==
    [destroyed |-> FALSE, listener |-> TRUE,
     stereo |-> <<e.stereoRef>>, fov |-> <<e.fovRef>>,
     loads |-> IF e.plyUrlRef # "" THEN <<e.plyUrlRef>> ELSE <<>>,
     lateLoad |-> ~e.mounted /\ e.plyUrlRef # ""]

\* `await mod.createEmbeddedViewer(...)` settles: the catch, or the
\* viewer is stored in viewerRef.current and set up
CreateSettles(ok) ==
    /\ embed.pc = "creating"
    /\ embed' =
         IF ~ok
         THEN [embed EXCEPT !.pc = "failed",
                            !.error = <<"Failed to init SuperSplat">>]
         ELSE [embed EXCEPT !.pc = "ready",
                            !.viewers = Append(@, Created(embed)),
                            !.viewerRef = <<Len(embed.viewers) + 1>>]
    /\ UNCHANGED <<viewerVars, app, asyncVars, fileVars, splat, pollVars>>

\* the cleanup of the mount effect
UnmountSplat ==
    /\ embed.mounted
    /\ embed' =
         IF embed.viewerRef = Null
         THEN [embed EXCEPT !.mounted = FALSE, !.disposed = TRUE]
         ELSE [embed EXCEPT
                 !.mounted = FALSE, !.disposed = TRUE,
                 !.viewers[embed.viewerRef[1]].listener = FALSE,
                 !.viewers[embed.viewerRef[1]].destroyed = TRUE,
                 !.viewerRef = Null]
    /\ UNCHANGED <<viewerVars, app, asyncVars, fileVars, splat, pollVars>>

InitEmbed ==
    LET p == PropRefs("sbs", R(12, 100), "pivot", ROne, RZero, FALSE,
                      FALSE, ROne)
    IN  /\ InitProps(p)
        /\ mountSize = ViewSize
        /\ InitScene(AfterMount("A", p, ViewSize))
        /\ InitAppIdle

NextEmbed ==
    \/ \E m \in {"mono", "sbs"} : SetStereoProp(m)
    \/ \E f \in {65, 90} : SetFovProp(f)
    \/ \E u \in Urls : SetPlyUrlProp(u)
    \/ \E ok \in BOOLEAN : ImportSettles(ok)
    \/ \E ok \in BOOLEAN : CreateSettles(ok)
    \/ UnmountSplat

SpecEmbed == InitEmbed /\ [][NextEmbed]_vars

\* C38: once the component has unmounted, no viewer is referenced and no
\* PLY load has been started since, and when the mount has come to its
\* end every embedded viewer that was created is destroyed; this includes
\* an unmount while the import or createEmbeddedViewer was pending
C38_Claim ==
    ~embed.mounted =>
        /\ embed.viewerRef = Null
        /\ \A i \in 1..Len(embed.viewers) :
              /\ ~embed.viewers[i].lateLoad
              /\ embed.pc \notin {"importing", "creating"} =>
                    embed.viewers[i].destroyed

\* C40: when the creation completes, the viewer is given the stereo
\* settings, the fov and the PLY of the props at that moment, whatever
\* changed while it was being created; each change of a prop after that
\* is pushed to the viewer once, and nothing else is pushed
C40_PropsReachViewer ==
    /\ [][CreateSettles(TRUE) =>
            LET n == embed'.viewers[embed'.viewerRef[1]]
            IN  /\ n.stereo = <<embed.props.mode>>
                /\ n.fov = <<embed.props.fovDeg>>
                /\ n.loads = <<embed.props.plyUrl>>]_vars
    /\ [][\A m \in {"mono", "sbs"} :
            (SetStereoProp(m) /\ embed.viewerRef # Null) =>
                LET v == embed.viewers[embed.viewerRef[1]]
                    w == embed'.viewers[embed.viewerRef[1]]
                IN  /\ w.stereo = Append(v.stereo, m)
                    /\ w.fov = v.fov
                    /\ w.loads = v.loads]_vars
    /\ [][\A f \in {65, 90} :
            (SetFovProp(f) /\ embed.viewerRef # Null) =>
                LET v == embed.viewers[embed.viewerRef[1]]
                    w == embed'.viewers[embed.viewerRef[1]]
                IN  /\ w.fov = Append(v.fov, f)
                    /\ w.stereo = v.stereo
                    /\ w.loads = v.loads]_vars
    /\ [][\A u \in Urls :
            (SetPlyUrlProp(u) /\ embed.viewerRef # Null) =>
                LET v == embed.viewers[embed.viewerRef[1]]
                    w == embed'.viewers[embed.viewerRef[1]]
                IN  /\ w.loads = Append(v.loads, u)
                    /\ w.stereo = v.stereo
                    /\ w.fov = v.fov]_vars

\* the viewer was created after the mode and the PLY had changed, and a
\* later change of the mode has been pushed
C40_Witness ==
    /\ embed.viewerRef # Null
    /\ embed.viewers[embed.viewerRef[1]].stereo = <<"sbs", "mono">>
    /\ embed.viewers[embed.viewerRef[1]].loads = <<"B">>
    /\ embed.viewers[embed.viewerRef[1]].fov = <<65>>

(***************************************************************************)
(* App: the job, its status and what is previewed.  handleSubmit, the      *)
(* local PLY input, the import of a params.json with a job and 'Refresh    *)
(* status' come in any order; the status effect polls with chains of       *)
(* requests and 1.5 s timers; the metadata effect reads the 360 metadata   *)
(* of a finished job.                                                      *)
(***************************************************************************)
MaxActions == 3     \* user actions in one run
MaxUploads == 1     \* uploads in one run
MaxChains == 3      \* poll chains alive at a time

JobIds == {"J0", "J1", "J2"}

Terminal == {"done", "error"}

\* status?.status
StatusOf(a) == IF a.status = Null THEN "undefined" ELSE a.status[1]

\* the metadata of a job: J0 is a 360 job with a merged PLY
MetaOf(j) ==
    IF j = "J0" THEN [enabled |-> TRUE, mergedPly |-> <<"merged">>]
    ELSE [enabled |-> FALSE, mergedPly |-> Null]

plyResolved(a, p) ==
    IF p.localPlyUrl # Null THEN p.localPlyUrl
    ELSE IF a.job # Null THEN <<a.job[1], "ply">> ELSE Null

mergedPlyUrl(a, p) ==
    IF a.job # Null /\ p.meta # Null /\ p.meta.mergedPly # Null
    THEN <<a.job[1], p.meta.mergedPly[1]>> ELSE Null

viewerPlyUrl(a, p) ==
    IF p.localPlyUrl # Null THEN p.localPlyUrl
    ELSE IF p.meta # Null /\ p.meta.enabled THEN mergedPlyUrl(a, p)
    ELSE IF mergedPlyUrl(a, p) # Null THEN mergedPlyUrl(a, p)
    ELSE plyResolved(a, p)

canPreview(a, p) ==
    /\ viewerPlyUrl(a, p) # Null
    /\ p.localPlyUrl # Null \/ StatusOf(a) = "done"

\* the cleanup of the status effect: clearTimeout of the timer of its
\* poll closure; a request in flight is left to complete
PollCleanup(chains) ==
    IF \E c \in BagToSet(chains) : c.live
    THEN LET c == CHOOSE c \in BagToSet(chains) : c.live
         IN  IF c.pc = "timer" THEN chains (-) SetToBag({c})
             ELSE (chains (-) SetToBag({c}))
                  (+) SetToBag({[c EXCEPT !.live = FALSE]})
    ELSE chains

\* the body of the status effect: poll() unless there is no job or the
\* status is terminal
PollStarted(a, chains) ==
    IF a.job = Null \/ StatusOf(a) \in Terminal THEN chains
    ELSE chains (+) SetToBag({[job |-> a.job[1], pc |-> "fetching",
                               live |-> TRUE]})

\* the commit of a render: the status effect runs again when job (an
\* object, new with every setJob) or status?.status differs, the metadata
\* effect when job?.jobId or status?.status differs
Committed(old, new, p, newJob) ==
    LET pollDeps == newJob \/ old.job # new.job
                    \/ StatusOf(old) # StatusOf(new)
        metaDeps == old.job # new.job \/ StatusOf(old) # StatusOf(new)
    IN  [p EXCEPT
           !.chains = IF pollDeps THEN PollStarted(new, PollCleanup(@))
                      ELSE @,
           !.metaPending = IF metaDeps
                           THEN new.job # Null /\ StatusOf(new) = "done"
                           ELSE @]

WithinChains(p) == BagCardinality(p.chains) <= MaxChains

\* handleSubmit up to its awaits
HandleSubmit ==
    LET new == [app EXCEPT !.error = Null, !.logs = Null, !.status = Null,
                           !.job = Null]
    IN  /\ ~polling.isUploading
        /\ polling.actions < MaxActions
        /\ polling.uploads < MaxUploads
        /\ app' = new
        /\ polling' = Committed(app, new,
                                [polling EXCEPT !.isUploading = TRUE,
                                                !.meta = Null,
                                                !.statusFrom = Null,
                                                !.actions = @ + 1],
                                FALSE)
        /\ WithinChains(polling')
        /\ UNCHANGED <<viewerVars, asyncVars, fileVars, splatVars>>

\* handleSubmit after uploadFile: the job of the response, or the error
UploadSettles(ok) ==
    LET j == IF polling.uploads = 0 THEN "J1" ELSE "J2"
        new == IF ok THEN [app EXCEPT !.job = <<j>>]
               ELSE [app EXCEPT !.error = <<"Upload failed">>]
    IN  /\ polling.isUploading
        /\ app' = new
        /\ polling' = Committed(app, new,
                                [polling EXCEPT
                                   !.isUploading = FALSE,
                                   !.uploads = IF ok THEN @ + 1 ELSE @],
                                ok)
        /\ WithinChains(polling')
        /\ UNCHANGED <<viewerVars, asyncVars, fileVars, splatVars>>

\* handleLocalPlyChange after cleanupCache
HandleLocalPlyChange ==
    LET new == [app EXCEPT !.job = Null, !.status = Null, !.logs = Null,
                           !.error = Null]
    IN  /\ polling.actions < MaxActions
        /\ app' = new
        /\ polling' = Committed(app, new,
                                [polling EXCEPT !.localPlyUrl = <<"local">>,
                                                !.meta = Null,
                                                !.statusFrom = Null,
                                                !.actions = @ + 1],
                                FALSE)
        /\ WithinChains(polling')
        /\ UNCHANGED <<viewerVars, asyncVars, fileVars, splatVars>>

\* handleImportParams for a params.json with a job
ImportJob(j) ==
    LET new == Imported(app, [valid |-> TRUE, viewer |-> Null,
                              job |-> <<j>>])
    IN  /\ polling.actions < MaxActions
        /\ app' = new
        /\ polling' = Committed(app, new,
                                [polling EXCEPT !.statusFrom = Null,
                                                !.actions = @ + 1],
                                TRUE)
        /\ WithinChains(polling')
        /\ UNCHANGED <<viewerVars, asyncVars, fileVars, splatVars>>

\* the button 'Refresh status'
RefreshStatus ==
    LET new == [app EXCEPT !.status = Null]
    IN  /\ app.job # Null
        /\ polling.actions < MaxActions
        /\ app' = new
        /\ polling' = Committed(app, new,
                                [polling EXCEPT !.statusFrom = Null,
                                                !.actions = @ + 1],
                                FALSE)
        /\ WithinChains(polling')
        /\ UNCHANGED <<viewerVars, asyncVars, fileVars, splatVars>>

\* poll after `await fetchStatus(job.statusUrl)`: the status is stored
\* and the timer set unless the status is terminal; a failed request
\* sets the error and ends the chain
StatusResponse(c, ok) ==
    LET res == polling.backend[c.job]
        rest == polling.chains (-) SetToBag({c})
        new == IF ok THEN [app EXCEPT !.status = <<res>>]
               ELSE [app EXCEPT !.error = <<"Status check failed">>]
        chains == IF ok /\ res \notin Terminal
                  THEN rest (+) SetToBag({[c EXCEPT !.pc = "timer"]})
                  ELSE rest
    IN  /\ BagIn(c, polling.chains)
        /\ c.pc = "fetching"
        /\ app' = new
        /\ polling' = Committed(app, new,
                                [polling EXCEPT
                                   !.chains = chains,
                                   !.statusFrom = IF ok THEN <<c.job>>
                                                  ELSE @],
                                FALSE)
        /\ WithinChains(polling')
        /\ UNCHANGED <<viewerVars, asyncVars, fileVars, splatVars>>

\* the 1.5 s timer of a chain fires: poll again
TimerFires(c) ==
    /\ BagIn(c, polling.chains)
    /\ c.pc = "timer"
    /\ polling' = [polling EXCEPT
                     !.chains = (@ (-) SetToBag({c}))
                                (+) SetToBag({[c EXCEPT !.pc = "fetching"]})]
    /\ UNCHANGED <<viewerVars, app, asyncVars, fileVars, splatVars>>

\* the backend's job makes progress
BackendAdvance(j, s) ==
    /\ j = "J1" => polling.uploads >= 1
    /\ j = "J2" => polling.uploads >= 2
    /\ \/ polling.backend[j] = "pending" /\ s = "running"
       \/ polling.backend[j] = "running" /\ s \in Terminal
    /\ polling' = [polling EXCEPT !.backend[j] = s]
    /\ UNCHANGED <<viewerVars, app, asyncVars, fileVars, splatVars>>

\* loadMetadata after `await fetchMetadata(job.metaUrl)`, for the effect
\* run that is still active
MetaSettles(ok) ==
    /\ polling.metaPending
    /\ polling' = [polling EXCEPT
                     !.metaPending = FALSE,
                     !.meta = IF ok THEN MetaOf(app.job[1]) ELSE Null]
    /\ UNCHANGED <<viewerVars, app, asyncVars, fileVars, splatVars>>

InitJobs ==
    LET p == PropRefs("sbs", R(12, 100), "pivot", ROne, RZero, FALSE,
                      FALSE, ROne)
    IN  /\ InitProps(p)
        /\ mountSize = ViewSize
        /\ InitScene(AfterMount("A", p, ViewSize))
        /\ InitAppIdle

NextJobs ==
    \/ HandleSubmit
    \/ \E ok \in BOOLEAN : UploadSettles(ok)
    \/ HandleLocalPlyChange
    \/ ImportJob("J0")
    \/ RefreshStatus
    \/ \E c \in BagToSet(polling.chains), ok \in BOOLEAN :
          StatusResponse(c, ok)
    \/ \E c \in BagToSet(polling.chains) : TimerFires(c)
    \/ \E j \in {"J1", "J2"}, s \in {"running", "done", "error"} :
          BackendAdvance(j, s)
    \/ \E ok \in BOOLEAN : MetaSettles(ok)

SpecJobs == InitJobs /\ [][NextJobs]_vars

\* a status request is issued: the status effect starts a poll, or a timer
\* fires
RequestIssued ==
    \/ \E c \in BagToSet(polling.chains) : TimerFires(c)
    \/ \E c \in BagToSet(polling'.chains) :
          /\ c.pc = "fetching"
          /\ c.live
          /\ ~BagIn(c, polling.chains)

\* C31: while there is a job whose stored status is not terminal, a poll
\* chain for it is alive (the app goes on polling until it receives
\* 'done' or 'error'); and once a terminal status is stored, no status
\* request is issued until 'Refresh status' is pressed or the job
\* replaced
C31_Claim ==
    /\ [](app.job # Null /\ StatusOf(app) \notin Terminal =>
             \E c \in BagToSet(polling.chains) : c.job = app.job[1])
    /\ [][(app.job # Null /\ StatusOf(app) \in Terminal
           /\ app'.job = app.job /\ StatusOf(app') \in Terminal)
          => ~RequestIssued]_vars

\* C32: when the status of the current job is 'done', the page previews
\* the PLY of that job: its merged PLY when its 360 metadata has been
\* read, its generated PLY otherwise (while the metadata is being read,
\* either)
C32_Claim ==
    (app.job # Null /\ StatusOf(app) = "done") =>
        /\ canPreview(app, polling)
        /\ LET j == app.job[1]
               url == viewerPlyUrl(app, polling)
           IN  IF polling.metaPending
               THEN url \in {<<j, "ply">>, <<j, "merged">>}
               ELSE IF MetaOf(j).enabled /\ polling.meta # Null
               THEN url = <<j, "merged">>
               ELSE url = <<j, "ply">>

\* C34: a stored status is the answer to a poll for the current job
C34_Claim ==
    app.status # Null =>
        /\ app.job # Null
        /\ polling.statusFrom = app.job

\* C35: at most one poll chain (a status request in flight or a pending
\* timer) is alive at any time
C35_Claim == BagCardinality(polling.chains) <= 1

\* the status polls under fair scheduling: a request in flight is
\* answered (now and then with a failure), a pending timer fires, an
\* upload settles
StatusAnswered ==
    \E c \in BagToSet(polling.chains) : StatusResponse(c, TRUE)

TimerElapses == \E c \in BagToSet(polling.chains) : TimerFires(c)

SpecJobsLive ==
    /\ InitJobs
    /\ [][NextJobs]_vars
    /\ WF_vars(StatusAnswered)
    /\ WF_vars(TimerElapses)
    /\ WF_vars(UploadSettles(TRUE))

\* C36: when from some moment on job j is the current job and the backend
\* reports the terminal status s for it, the stored status becomes s and
\* stays s, with no user action needed, also after failed status requests
C36_Claim ==
    \A j \in JobIds : \A s \in Terminal :
        <>[](app.job = <<j>> /\ polling.backend[j] = s)
            => <>[](app.status = <<s>>)

====
